---- MODULE Spec2Model ----
(***************************************************************************)
(* A model of the pr-review-agent core: diff truncation, skill matching,   *)
(* context assembly, response extraction and review post-processing.       *)
(*                                                                         *)
(* Text is modelled as a sequence of symbols.  A symbol is either a single *)
(* character ("a", "/", ".", " ", "0", ...) or one of the literals the     *)
(* program's regular expressions look for ("VERDICT:", "[File:", "Line:",  *)
(* "approve", ...), kept atomic.  No literal is a suffix/prefix overlap of *)
(* another, so matching symbol by symbol agrees with matching character by *)
(* character on the texts built from these symbols.                        *)
(***************************************************************************)
EXTENDS Integers, Sequences, FiniteSets, TLC

VARIABLES
    \* ContextBuilder.truncateDiff
    diff,          \* the Diff handed to truncateDiff
    maxDiffSize,   \* config.maxDiffSize
    truncated,     \* the Diff truncateDiff returned, or NoValue before the call
    \* SkillLoader.matchesPattern
    globPath,      \* filePath
    globPattern,   \* pattern
    globResult,    \* what matchesPattern returned, or NoValue before the call
    \* SkillLoader.loadSkills / matchSkills
    skillsPathExists,  \* fs.existsSync(this.skillsPath)
    skillDirs,     \* the skills of the skill directories, in readdir order
    filePaths,     \* the argument of matchSkills
    matched,       \* what matchSkills returned, or NoValue before the call
    permSkillDirs, \* a second call on permuted inputs: the skills,
    permFilePaths, \*   the paths,
    matchedPerm,   \*   and what matchSkills returned
    \* the review operations
    response,      \* the completion text the model backend returns
    maxCommentsOption,    \* ReviewEngineOptions.maxComments (NoValue: not given)
    maxSuggestionsOption, \* ReviewEngineOptions.maxSuggestions (NoValue: not given)
    reviewOp,      \* the review operation that ran, "" before
    reviewResult,  \* the ReviewResult it returned, or NoValue before the call
    \* ContextBuilder.build
    prDiff,        \* what vcs.getDiff(prId) resolves to
    prFiles,       \* what vcs.getFiles(prId) resolves to
    ignorePaths,   \* config.ignorePaths
    fetched,       \* the fetches of the Promise.all that have resolved
    skillPathsArg, \* the paths build handed to matchSkills, NoValue before
    context,       \* the ReviewContext build returned, or NoValue before
    ticketAdapters, \* options.tickets, the names of the ticket adapters
    issued,        \* the fetches of the Promise.all that have been issued
    rejected,      \* the fetches of the Promise.all that have rejected
    buildPc,       \* where build is
    filteredFiles, \* filteredFiles, NoValue before the filter
    linkedTicketIds, \* what vcs.getLinkedTickets(prId) resolved to
    ticketCalls,   \* the getTicket calls made, in order, with their outcome
    tickets,       \* tickets, the local of fetchTickets
    modelCalled,   \* ReviewEngine.review has called llm.generateReview(context)
    \* GitHubAdapter.parseDiff
    diffLines,     \* the lines the raw diff is made of
    diffText,      \* diffText, the raw diff
    filesData,     \* filesData, the entries of pulls.listFiles
    fileDiffs,     \* what parseDiff returned, or NoValue before the call
    gotDiff,       \* the Diff getDiff returned, or NoValue before the call
    \* OutputFormatter.format
    completion,    \* the completion text the result is extracted from
    formatInput,   \* the ReviewResult handed to format, NoValue before extraction
    formatKind,    \* the formatter that ran, "" before
    formatted,     \* the string format returned, NoValue before (or when it threw)
    formatThrew,   \* format threw a TypeError
    \* SkillLoader.loadSkill on a SKILL.md file
    triggerItems,  \* the trigger list items the file is written with
    skillFile,     \* the content of the SKILL.md file
    changedFile,   \* the path of the changed file
    loadedSkills,  \* what listSkills returned, or NoValue before the call
    fileMatched,   \* what matchSkills([changedFile]) returned, or NoValue
    \* the review command of the CLI
    commandLine,   \* the options given on the command line
    configProvider, \* llm.provider of the config file, NoValue when it has none
    apiKeySet,     \* an API key for the provider is in the environment or the config
    tokenSet,      \* a token for the VCS platform is in the environment or the config
    generated,     \* the number of comments the review will generate
    cliPc,         \* where the action handler is
    llmBackend,    \* the provider of the backend the handler constructed, "" before
    cliResult,     \* the ReviewResult agent.review returned, or NoValue before
    vcsCalls,      \* the calls issued to the VCS adapter, in order
    failedCall,    \* the call that rejected, NoValue when none has
    delivered,     \* what the version-control host has received, in order
    stdout,        \* what the handler has written to the console, in order
    \* detectSeverity on a comment body
    severityBody,  \* the body detectSeverity is called with
    detected       \* what detectSeverity returned, or NoValue before the call

truncVars == <<diff, maxDiffSize, truncated>>
globVars == <<globPath, globPattern, globResult>>
skillVars == <<skillsPathExists, skillDirs, filePaths, matched,
               permSkillDirs, permFilePaths, matchedPerm>>

reviewVars == <<response, maxCommentsOption, maxSuggestionsOption, reviewOp, reviewResult>>

buildVars == <<prDiff, prFiles, ignorePaths, fetched, skillPathsArg, context,
               ticketAdapters, issued, rejected, buildPc, filteredFiles,
               linkedTicketIds, ticketCalls, tickets, modelCalled>>

parseVars == <<diffLines, diffText, filesData, fileDiffs, gotDiff>>

formatVars == <<completion, formatInput, formatKind, formatted, formatThrew>>

skillFileVars == <<triggerItems, skillFile, changedFile, loadedSkills, fileMatched>>

cliVars == <<commandLine, configProvider, apiKeySet, tokenSet, generated, cliPc,
             llmBackend, cliResult, vcsCalls, failedCall, delivered, stdout>>

severityVars == <<severityBody, detected>>

vars == <<truncVars, globVars, skillVars, reviewVars, buildVars, parseVars, formatVars,
          skillFileVars, cliVars, severityVars>>

\* what each part of the model leaves alone
truncOthers == <<globVars, skillVars, reviewVars, buildVars, parseVars, formatVars,
                 skillFileVars, cliVars, severityVars>>
globOthers == <<truncVars, skillVars, reviewVars, buildVars, parseVars, formatVars,
                skillFileVars, cliVars, severityVars>>
skillOthers == <<truncVars, globVars, reviewVars, buildVars, parseVars, formatVars,
                 skillFileVars, cliVars, severityVars>>
reviewOthers == <<truncVars, globVars, skillVars, buildVars, parseVars, formatVars,
                  skillFileVars, cliVars, severityVars>>
parseOthers == <<truncVars, globVars, skillVars, reviewVars, buildVars, formatVars,
                 skillFileVars, cliVars, severityVars>>
formatOthers == <<truncVars, globVars, skillVars, reviewVars, buildVars, parseVars,
                  skillFileVars, cliVars, severityVars>>
skillFileOthers == <<truncVars, globVars, skillVars, reviewVars, buildVars, parseVars,
                     formatVars, cliVars, severityVars>>
\* build reads config.maxDiffSize and the skill directories
buildOthers == <<diff, truncated, globVars, filePaths, matched,
                 permSkillDirs, permFilePaths, matchedPerm, reviewVars, parseVars,
                 formatVars, skillFileVars, cliVars, severityVars>>
cliOthers == <<truncVars, globVars, skillVars, reviewVars, buildVars, parseVars,
               formatVars, skillFileVars, severityVars>>
severityOthers == <<truncVars, globVars, skillVars, reviewVars,
    buildVars, parseVars, formatVars, skillFileVars,
    cliVars>>

\* A result variable holds NoValue before the call and Some(v) once the call
\* has returned v.
NoValue == <<>>
Some(v) == <<v>>
Get(r) == r[1]

(***************************************************************************)
(* Bounds of the model.                                                    *)
(***************************************************************************)
MaxFiles == 3
MaxHunks == 1
MaxPathLen == 3
MaxPatternLen == 3
MaxSkills == 2
MaxPaths == 2
MaxSegments == 3
MaxIgnores == 1
MaxDiffLines == 4
MaxTriggers == 2
MaxGenerated == 2
MaxAdapters == 2
MaxLinked == 2
MaxWords == 3

\* hunk content lengths the inputs are drawn from
HunkSizes == {0, 25, 40}
\* values of config.maxDiffSize the inputs are drawn from
Budgets == {0, 25, 40, 65, 90}

RECURSIVE SeqsUpTo(_, _)
SeqsUpTo(S, n) ==
    IF n = 0 THEN {<<>>}
    ELSE LET shorter == SeqsUpTo(S, n - 1)
         IN  shorter \cup {Append(s, x) : s \in {t \in shorter : Len(t) = n - 1}, x \in S}

RECURSIVE SumSeq(_)
SumSeq(s) == IF s = <<>> THEN 0 ELSE Head(s) + SumSeq(Tail(s))

Range(s) == {s[i] : i \in 1..Len(s)}

(***************************************************************************)
(* Types (types.ts).  A hunk's content is kept as its text and its length. *)
(***************************************************************************)
Content(n) == [text |-> "hunk", length |-> n]

DiffHunk(n) ==
    [oldStart |-> 1, oldLines |-> 0, newStart |-> 1, newLines |-> 0, content |-> Content(n)]

\* the changed-file paths the inputs are drawn from
PathSrcPy == <<"s", "r", "c", "/", "a", ".", "p", "y">>
PathSrcTs == <<"s", "r", "c", "/", "a", ".", "t", "s">>
PathReadme == <<"R", "E", "A", "D", "M", "E", ".", "m", "d">>
PathLock == <<"y", "a", "r", "n", ".", "l", "o", "c", "k">>
PathDist == <<"d", "i", "s", "t", "/", "a", ".", "j", "s">>
SamplePaths == {PathSrcPy, PathSrcTs, PathReadme}

FilePaths == <<PathSrcTs, PathSrcPy, PathLock, PathReadme>>

FileDiffOf(path, hunks) ==
    [path |-> path, status |-> "modified",
     additions |-> Len(hunks), deletions |-> 0, hunks |-> hunks]

\* the i-th file of a diff
FileDiff(i, hunks) == FileDiffOf(FilePaths[((i - 1) % Len(FilePaths)) + 1], hunks)

FileInfo(path) == [path |-> path]

HunkLists == {[i \in 1..Len(ls) |-> DiffHunk(ls[i])] : ls \in SeqsUpTo(HunkSizes, MaxHunks)}

FileLists ==
    {[i \in 1..Len(hs) |-> FileDiff(i, hs[i])] : hs \in SeqsUpTo(HunkLists, MaxFiles)}

MakeDiff(files) ==
    [files |-> files, additions |-> SumSeq([i \in 1..Len(files) |-> files[i].additions]),
     deletions |-> 0, changedFiles |-> Len(files)]

Diffs == {MakeDiff(fs) : fs \in FileLists}

(***************************************************************************)
(* ContextBuilder.truncateDiff                                             *)
(***************************************************************************)
\* the text of the sentinel hunk: `... [Truncated - file too large]`
MarkerLength == 32

TruncationMarker == [text |-> "... [Truncated - file too large]", length |-> MarkerLength]

MarkerHunk ==
    [oldStart |-> 0, oldLines |-> 0, newStart |-> 0, newLines |-> 0,
     content |-> TruncationMarker]

\* file.hunks.reduce((sum, h) => sum + h.content.length, 0)
FileSize(file) == SumSeq([i \in 1..Len(file.hunks) |-> file.hunks[i].content.length])

ExceedsBudgetBeforeAdding(currentSize, fileSize, max) == currentSize > max

\* if (currentSize + fileSize > this.config.maxDiffSize)
ExceedsBudget(currentSize, fileSize, max) == currentSize + fileSize > max

\* the for loop of truncateDiff, from file i on
RECURSIVE TruncateLoop(_, _, _, _, _)
TruncateLoop(files, i, currentSize, truncatedFiles, max) ==
    IF i > Len(files) THEN truncatedFiles
    ELSE LET file == files[i]
             fileSize == FileSize(file)
         IN  IF ExceedsBudget(currentSize, fileSize, max)
             THEN Append(truncatedFiles, [file EXCEPT !.hunks = <<MarkerHunk>>])
             ELSE TruncateLoop(files, i + 1, currentSize + fileSize,
                               Append(truncatedFiles, file), max)

\* truncateDiff without the file that carries the sentinel hunk
truncateDiffWithoutSentinel(d, max) ==
    LET truncatedFiles == SelectSeq(TruncateLoop(d.files, 1, 0, <<>>, max),
                                    LAMBDA f : f.hunks # <<MarkerHunk>>)
    IN  [d EXCEPT !.files = truncatedFiles, !.changedFiles = Len(truncatedFiles)]

truncateDiff(d, max) ==
    LET truncatedFiles == TruncateLoop(d.files, 1, 0, <<>>, max)
    IN  [d EXCEPT !.files = truncatedFiles, !.changedFiles = Len(truncatedFiles)]

TruncIdle == diff = MakeDiff(<<>>) /\ maxDiffSize = 0 /\ truncated = NoValue

GlobIdle == globPath = <<>> /\ globPattern = <<>> /\ globResult = NoValue

SkillIdle ==
    /\ skillsPathExists = FALSE /\ skillDirs = <<>> /\ filePaths = <<>>
    /\ matched = NoValue
    /\ permSkillDirs = <<>> /\ permFilePaths = <<>> /\ matchedPerm = NoValue

ReviewIdle ==
    /\ response = <<>> /\ maxCommentsOption = NoValue /\ maxSuggestionsOption = NoValue
    /\ reviewOp = "" /\ reviewResult = NoValue

BuildIdle ==
    /\ prDiff = MakeDiff(<<>>) /\ prFiles = <<>> /\ ignorePaths = <<>>
    /\ fetched = {} /\ skillPathsArg = NoValue /\ context = NoValue
    /\ ticketAdapters = <<>> /\ issued = {} /\ rejected = {} /\ buildPc = "idle"
    /\ filteredFiles = NoValue /\ linkedTicketIds = <<>> /\ ticketCalls = <<>>
    /\ tickets = <<>> /\ modelCalled = FALSE

ParseIdle ==
    /\ diffLines = <<>> /\ diffText = <<>> /\ filesData = <<>> /\ fileDiffs = NoValue
    /\ gotDiff = NoValue

FormatIdle ==
    /\ completion = <<>> /\ formatInput = NoValue /\ formatKind = ""
    /\ formatted = NoValue /\ formatThrew = FALSE

SkillFileIdle ==
    /\ triggerItems = <<>> /\ skillFile = <<>> /\ changedFile = <<>>
    /\ loadedSkills = NoValue /\ fileMatched = NoValue

CliIdle ==
    /\ commandLine = [provider |-> NoValue, dryRun |-> FALSE, output |-> "markdown",
                      vcs |-> "github"]
    /\ configProvider = NoValue /\ apiKeySet = FALSE /\ tokenSet = FALSE
    /\ generated = 0 /\ cliPc = "idle" /\ llmBackend = "" /\ cliResult = NoValue
    /\ vcsCalls = <<>> /\ failedCall = NoValue /\ delivered = <<>> /\ stdout = <<>>

SeverityIdle ==
    severityBody = <<>> /\ detected = NoValue

\* the parts of the model the first five specifications leave idle
ExtensionsIdle == ParseIdle /\ FormatIdle /\ SkillFileIdle /\ CliIdle /\ SeverityIdle

TruncInit ==
    /\ diff \in Diffs
    /\ maxDiffSize \in Budgets
    /\ truncated = NoValue
    /\ GlobIdle /\ SkillIdle /\ ReviewIdle /\ BuildIdle /\ ExtensionsIdle

TruncateDiff ==
    /\ truncated = NoValue
    /\ truncated' = Some(truncateDiff(diff, maxDiffSize))
    /\ UNCHANGED <<diff, maxDiffSize, truncOthers>>

TruncNext == TruncateDiff

SpecTruncate == TruncInit /\ [][TruncNext]_vars

\* the sum of hunk content lengths over all files of a diff
EmittedLength(d) == SumSeq([i \in 1..Len(d.files) |-> FileSize(d.files[i])])

\* C2: for every diff and every budget B >= 0, the hunk content lengths of
\* truncateDiff's result sum to at most B plus the length of the marker text.
C2_TruncatedWithinBudget ==
    truncated # NoValue => EmittedLength(Get(truncated)) <= maxDiffSize + MarkerLength

\* a truncation happened: the input exceeded the budget and the result ends
\* with the sentinel hunk after a file that was included whole
C2_Witness ==
    /\ truncated # NoValue
    /\ EmittedLength(diff) > maxDiffSize
    /\ Len(Get(truncated).files) >= 2
    /\ Get(truncated).files[Len(Get(truncated).files)].hunks = <<MarkerHunk>>
    /\ EmittedLength(Get(truncated)) > maxDiffSize

\* the running total of hunk content lengths after the first n files of d
RunningTotal(d, n) == SumSeq([i \in 1..n |-> FileSize(d.files[i])])

\* the number of leading files of d whose running total stays within the budget
WholeFiles(d, max) ==
    LET within == {n \in 0..Len(d.files) : \A m \in 0..n : RunningTotal(d, m) <= max}
    IN  CHOOSE n \in within : \A m \in within : m <= n

\* C21: truncateDiff returns the leading files whose running total stays at
\* or below the budget, unchanged and in order; when a file is left over, the
\* first such file follows as a copy with the same path, status and counts and
\* the sentinel hunk as its only hunk, and nothing comes after it; the files
\* kept are those of the input diff as they are, no hunk of them split.
C21_WholePrefixThenSentinel ==
    truncated # NoValue =>
        LET t == Get(truncated)
            p == WholeFiles(diff, maxDiffSize)
        IN  /\ SubSeq(t.files, 1, p) = SubSeq(diff.files, 1, p)
            /\ IF p = Len(diff.files)
               THEN Len(t.files) = p
               ELSE /\ Len(t.files) = p + 1
                    /\ t.files[p + 1] = [diff.files[p + 1] EXCEPT !.hunks = <<MarkerHunk>>]
            /\ t.additions = diff.additions /\ t.deletions = diff.deletions

\* a file brought the total exactly to the budget and was kept whole, and the
\* next file was replaced by the sentinel, with a further file left out
C21_Witness ==
    /\ truncated # NoValue
    /\ WholeFiles(diff, maxDiffSize) >= 1
    /\ RunningTotal(diff, WholeFiles(diff, maxDiffSize)) = maxDiffSize
    /\ Len(diff.files) > WholeFiles(diff, maxDiffSize) + 1
    /\ Get(truncated).files[Len(Get(truncated).files)].hunks = <<MarkerHunk>>

(***************************************************************************)
(* SkillLoader.matchesPattern                                              *)
(*                                                                         *)
(* A path and a pattern are sequences of characters.  The pattern is       *)
(* rewritten into a regular expression, a sequence of elements:            *)
(*   [kind |-> "lit", ch |-> c]   the character c                          *)
(*   [kind |-> "any"]             .      (one character)                   *)
(*   [kind |-> "anystar"]         .*                                       *)
(*   [kind |-> "nsstar"]          [^/]*                                    *)
(***************************************************************************)
PathChars == {"a", "/", "."}
PatternChars == {"a", "/", ".", "*", "?"}

Lit(c) == [kind |-> "lit", ch |-> c]
AnyChar == [kind |-> "any"]
AnyStar == [kind |-> "anystar"]
NoSlashStar == [kind |-> "nsstar"]

\* .replace(/\*\*/g, '<<DOUBLE_STAR>>').replace(/\*/g, '[^/]*')
\* .replace(/<<DOUBLE_STAR>>/g, '.*').replace(/\?/g, '.')
\* Pairs of stars are taken from the left; a "." of the pattern is left as it
\* is and so is the regular expression's any-character.
RECURSIVE GlobToRegex(_)
GlobToRegex(pattern) ==
    IF pattern = <<>> THEN <<>>
    ELSE IF Len(pattern) >= 2 /\ pattern[1] = "*" /\ pattern[2] = "*"
         THEN <<AnyStar>> \o GlobToRegex(SubSeq(pattern, 3, Len(pattern)))
    ELSE IF pattern[1] = "*" THEN <<NoSlashStar>> \o GlobToRegex(Tail(pattern))
    ELSE IF pattern[1] = "?" \/ pattern[1] = "." THEN <<AnyChar>> \o GlobToRegex(Tail(pattern))
    ELSE <<Lit(pattern[1])>> \o GlobToRegex(Tail(pattern))

\* The ends e (a position after the last matched character, j - 1 for the
\* empty match) of the matches of regex[i..] that start at position j of text.
RECURSIVE MatchEnds(_, _, _, _)
MatchEnds(regex, i, text, j) ==
    IF i > Len(regex) THEN {j}
    ELSE LET el == regex[i]
         IN  CASE el.kind = "lit" ->
                    IF j <= Len(text) /\ text[j] = el.ch
                    THEN MatchEnds(regex, i + 1, text, j + 1) ELSE {}
              [] el.kind = "any" ->
                    IF j <= Len(text)
                    THEN MatchEnds(regex, i + 1, text, j + 1) ELSE {}
              [] el.kind = "anystar" ->
                    UNION {MatchEnds(regex, i + 1, text, k) : k \in j..(Len(text) + 1)}
              [] el.kind = "nsstar" ->
                    UNION {MatchEnds(regex, i + 1, text, k) :
                             k \in {m \in j..(Len(text) + 1) :
                                      \A n \in j..(m - 1) : text[n] # "/"}}

\* new RegExp(regex).test(text): a match starting anywhere, ending anywhere
RegexTest(regex, text) ==
    \E j \in 1..(Len(text) + 1) : MatchEnds(regex, 1, text, j) # {}

\* the anchored test, new RegExp('^' + regex + '$').test(text)
RegexTestAnchored(regex, text) ==
    (Len(text) + 1) \in MatchEnds(regex, 1, text, 1)

matchesPattern(filePath, pattern) == RegexTest(GlobToRegex(pattern), filePath)

\* the triggers of the built-in skills: **/* of the default skill, and **/*.py
TriggerAny == <<"*", "*", "/", "*">>
TriggerAnyPy == <<"*", "*", "/", "*", ".", "p", "y">>

\* a file at the root of the repository
PathRootPy == <<"a", ".", "p", "y">>

\* the paths and the patterns matchesPattern is called with: every short one,
\* and those of the built-in skills
GlobPaths == (SeqsUpTo(PathChars, MaxPathLen) \ {<<>>}) \cup {PathReadme, PathRootPy, PathSrcPy}
GlobPatterns == SeqsUpTo(PatternChars, MaxPatternLen) \cup {TriggerAny, TriggerAnyPy}

GlobInit ==
    /\ globPath \in GlobPaths
    /\ globPattern \in GlobPatterns
    /\ globResult = NoValue
    /\ TruncIdle /\ SkillIdle /\ ReviewIdle /\ BuildIdle /\ ExtensionsIdle

MatchesPattern ==
    /\ globResult = NoValue
    /\ globResult' = Some(matchesPattern(globPath, globPattern))
    /\ UNCHANGED <<globPath, globPattern, globOthers>>

GlobNext == MatchesPattern

SpecGlob == GlobInit /\ [][GlobNext]_vars

\* C4: matchesPattern returns true only if the whole path satisfies the
\* translated glob, never because a proper substring of the path does.
C4_AnchoredFullMatch ==
    globResult = Some(TRUE) => RegexTestAnchored(GlobToRegex(globPattern), globPath)

\* C30: the trigger **/* matches every file path that is not empty, one
\* without a directory such as README.md included, and **/*.py matches a.py
\* at the root as well as src/a.py.
C30_DoubleStarMatchesRootFiles ==
    globResult # NoValue =>
        /\ (globPattern = TriggerAny /\ globPath # <<>>) => globResult = Some(TRUE)
        /\ (globPattern = TriggerAnyPy /\ globPath \in {PathRootPy, PathSrcPy})
              => globResult = Some(TRUE)

(***************************************************************************)
(* SkillLoader.loadSkills and matchSkills                                  *)
(***************************************************************************)
\* the trigger patterns of the sample skills
TriggerAnyTs == <<"*", "*", "/", "*", ".", "t", "s">>
TriggerMd == <<"*", ".", "m", "d">>
TriggerSrcATs == <<"s", "r", "c", "/", "a", ".", "t", "s">>

\* A Skill as loadSkill builds it.  dir is the name of its directory, which
\* tells two Skill objects apart; description and content play no part in
\* matching and are left out.
Skill(dir, priority, triggers) ==
    [dir |-> dir, name |-> dir, priority |-> priority, triggers |-> triggers]

SampleSkills ==
    { Skill("security", "high", <<TriggerAnyPy>>),
      Skill("backend", "medium", <<TriggerSrcATs, TriggerAnyPy>>),
      Skill("frontend", "medium", <<TriggerAnyTs>>),
      Skill("docs", "low", <<TriggerMd>>),
      Skill("default", "low", <<TriggerAny>>),
      Skill("empty", "medium", <<>>) }

\* the sequences of at most n elements of S, none of them twice
DistinctSeqsUpTo(S, n) == {q \in SeqsUpTo(S, n) : Cardinality(Range(q)) = Len(q)}

\* const priorityOrder = { high: 3, medium: 2, low: 1 }
priorityOrder(p) == CASE p = "high" -> 3 [] p = "medium" -> 2 [] p = "low" -> 1

\* (a, b) => priorityOrder[b.priority] - priorityOrder[a.priority]
ComparePriority(a, b) == priorityOrder(b.priority) - priorityOrder(a.priority)

\* Array.prototype.sort is stable: an element goes after every element that
\* does not compare greater than it.
RECURSIVE InsertSorted(_, _)
InsertSorted(sorted, x) ==
    IF sorted = <<>> THEN <<x>>
    ELSE IF ComparePriority(Head(sorted), x) > 0 THEN <<x>> \o sorted
    ELSE <<Head(sorted)>> \o InsertSorted(Tail(sorted), x)

RECURSIVE SortByPriority(_)
SortByPriority(skills) ==
    IF skills = <<>> THEN <<>>
    ELSE InsertSorted(SortByPriority(SubSeq(skills, 1, Len(skills) - 1)),
                      skills[Len(skills)])

loadSkills(exists, dirs) == IF ~exists THEN <<>> ELSE SortByPriority(dirs)

FirstTriggerOnly(filePath, skill) ==
    skill.triggers # <<>> /\ matchesPattern(filePath, skill.triggers[1])

\* for (const trigger of skill.triggers) if (matchesPattern(...)) { add; break }
AnyTriggerMatches(filePath, skill) ==
    \E t \in 1..Len(skill.triggers) : matchesPattern(filePath, skill.triggers[t])

\* matched.add(skill): a Set keeps insertion order and no duplicates
SetAdd(set, x) == IF x \in Range(set) THEN set ELSE Append(set, x)

\* the loop over the skills for one file path, from skill k on
RECURSIVE SkillLoopFirstMatchOnly(_, _, _, _)
SkillLoopFirstMatchOnly(filePath, skills, k, set) ==
    IF k > Len(skills) THEN set
    ELSE IF AnyTriggerMatches(filePath, skills[k]) THEN SetAdd(set, skills[k])
    ELSE SkillLoopFirstMatchOnly(filePath, skills, k + 1, set)

RECURSIVE SkillLoop(_, _, _, _)
SkillLoop(filePath, skills, k, set) ==
    IF k > Len(skills) THEN set
    ELSE SkillLoop(filePath, skills, k + 1,
                   IF AnyTriggerMatches(filePath, skills[k])
                   THEN SetAdd(set, skills[k]) ELSE set)

\* the loop over the file paths, from path p on
RECURSIVE PathLoop(_, _, _, _)
PathLoop(paths, p, skills, set) ==
    IF p > Len(paths) THEN set
    ELSE PathLoop(paths, p + 1, skills, SkillLoop(paths[p], skills, 1, set))

\* Array.from(matched)
matchSkills(exists, dirs, paths) == PathLoop(paths, 1, loadSkills(exists, dirs), <<>>)

\* the reorderings of a sequence
Reorderings(q) ==
    {[i \in 1..Len(q) |-> q[f[i]]] :
       f \in {g \in [1..Len(q) -> 1..Len(q)] : \A i, j \in 1..Len(q) : g[i] = g[j] => i = j}}

\* a skills directory that does not exist holds no skill directories
SkillInit ==
    /\ skillsPathExists \in BOOLEAN
    /\ skillDirs \in IF skillsPathExists THEN DistinctSeqsUpTo(SampleSkills, MaxSkills)
                     ELSE {<<>>}
    /\ filePaths \in DistinctSeqsUpTo(SamplePaths, MaxPaths)
    /\ matched = NoValue
    /\ permSkillDirs = <<>> /\ permFilePaths = <<>> /\ matchedPerm = NoValue
    /\ TruncIdle /\ GlobIdle /\ ReviewIdle /\ BuildIdle /\ ExtensionsIdle

MatchSkills ==
    /\ matched = NoValue
    /\ matched' = Some(matchSkills(skillsPathExists, skillDirs, filePaths))
    /\ UNCHANGED <<skillsPathExists, skillDirs, filePaths,
                   permSkillDirs, permFilePaths, matchedPerm, skillOthers>>

\* a second call, with the skill directories and the file paths in another order
MatchSkillsPermuted ==
    /\ matched # NoValue
    /\ matchedPerm = NoValue
    /\ \E sd \in Reorderings(skillDirs), fp \in Reorderings(filePaths) :
         /\ permSkillDirs' = sd
         /\ permFilePaths' = fp
         /\ matchedPerm' = Some(matchSkills(skillsPathExists, sd, fp))
    /\ UNCHANGED <<skillsPathExists, skillDirs, filePaths, matched, skillOthers>>

SkillNext == MatchSkills \/ MatchSkillsPermuted

SpecSkills == SkillInit /\ [][SkillNext]_vars

\* the skills loadSkills can return
AvailableSkills == IF skillsPathExists THEN Range(skillDirs) ELSE {}

\* C5: matchSkills returns each skill at most once, and returns a skill if and
\* only if one of its trigger patterns matches one of the paths; with no
\* skills available, or no skills directory, it returns the empty list.
C5_MatchedIffTriggered ==
    matched # NoValue =>
        LET m == Get(matched)
        IN  /\ \A i, j \in 1..Len(m) : m[i] = m[j] => i = j
            /\ Range(m) \subseteq AvailableSkills
            /\ \A sk \in AvailableSkills :
                 sk \in Range(m) <=>
                     \E t \in 1..Len(sk.triggers), p \in 1..Len(filePaths) :
                         matchesPattern(filePaths[p], sk.triggers[t])
            /\ (AvailableSkills = {} => m = <<>>)

\* two skills and two paths: one skill is returned, once, although only the
\* second path matches it and only by its second trigger; the other is left out
C5_Witness ==
    /\ matched # NoValue
    /\ skillsPathExists
    /\ Len(skillDirs) = 2
    /\ filePaths = <<PathReadme, PathSrcPy>>
    /\ Len(Get(matched)) = 1
    /\ Get(matched)[1].dir = "backend"

\* C6: the list matchSkills returns is the stable priority-descending sort of
\* the matched skills: high before medium before low, and skills of equal
\* priority in the order in which they were discovered.
C6_PrioritySortedStable ==
    matched # NoValue =>
        LET m == Get(matched)
            IsMatched(sk) == sk \in Range(m)
        IN  m = SortByPriority(SelectSeq(skillDirs, IsMatched))

\* C7: every reordering of the skill list and of the file-path list yields the
\* same set of matched skills.
C7_OrderIndependentSet ==
    (matched # NoValue /\ matchedPerm # NoValue) =>
        Range(Get(matched)) = Range(Get(matchedPerm))

\* both inputs were reordered and the two calls returned the same two skills,
\* in a different order
C7_Witness ==
    /\ matched # NoValue /\ matchedPerm # NoValue
    /\ permSkillDirs # skillDirs
    /\ permFilePaths # filePaths
    /\ Len(Get(matched)) = 2
    /\ Get(matchedPerm) # Get(matched)

(***************************************************************************)
(* ClaudeBackend.parseReviewResponse (OllamaBackend's is the same code)    *)
(***************************************************************************)
IsSpace(c) == c \in {" ", "\n"}

Digits == <<"0", "1", "2", "3", "4", "5", "6", "7", "8", "9">>

\* the largest Number below Infinity is about 1.797e308: it has 309 digits
MaxNumberDigits == 309

\* an atomic symbol: a run of 310 digits 9
NinesRun == "9 (310 times)"

IsDigit(c) == c \in Range(Digits) \cup {NinesRun}

\* the number of digits a digit symbol stands for
DigitWidth(c) == IF c = NinesRun THEN MaxNumberDigits + 1 ELSE 1
DigitValue(c) == (CHOOSE n \in 1..Len(Digits) : Digits[n] = c) - 1

Min(a, b) == IF a < b THEN a ELSE b
Max(S) == CHOOSE x \in S : \A y \in S : y <= x

\* the first position at or after i that holds no whitespace (Len + 1 at the end)
RECURSIVE SkipSpaces(_, _)
SkipSpaces(text, i) ==
    IF i <= Len(text) /\ IsSpace(text[i]) THEN SkipSpaces(text, i + 1) ELSE i

\* the first position at or after i that holds no digit
RECURSIVE SkipDigits(_, _)
SkipDigits(text, i) ==
    IF i <= Len(text) /\ IsDigit(text[i]) THEN SkipDigits(text, i + 1) ELSE i

\* String.prototype.trim
RECURSIVE TrimEnd(_)
TrimEnd(text) ==
    IF text # <<>> /\ IsSpace(text[Len(text)])
    THEN TrimEnd(SubSeq(text, 1, Len(text) - 1)) ELSE text

Trim(text) == TrimEnd(SubSeq(text, SkipSpaces(text, 1), Len(text)))

\* the value of a run of digits
RECURSIVE DecimalValue(_)
DecimalValue(digits) ==
    IF digits = <<>> THEN 0
    ELSE 10 * DecimalValue(SubSeq(digits, 1, Len(digits) - 1))
         + DigitValue(digits[Len(digits)])

\* stands for the Number value Infinity, above every value a run of digits of
\* the inputs has
Infinity == 2147483647

RECURSIVE StripZeros(_)
StripZeros(digits) ==
    IF digits # <<>> /\ Head(digits) = "0" THEN StripZeros(Tail(digits)) ELSE digits

\* the run of digits is a decimal above the range of Number: more than 309
\* digits, or 309 digits that start with 18, 19 or a digit from 2 to 9
OverflowsNumber(digits) ==
    LET d == StripZeros(digits)
        width == SumSeq([k \in 1..Len(d) |-> DigitWidth(d[k])])
    IN  \/ width > MaxNumberDigits
        \/ /\ width = MaxNumberDigits
           /\ (d[1] # "1" \/ d[2] \in {"8", "9"})

\* parseInt of a run of digits
parseInt(digits) ==
    IF OverflowsNumber(digits) THEN Infinity ELSE DecimalValue(digits)

\* the symbols that lower-casing changes
ToLowerCase(c) ==
    IF c = "APPROVE" THEN "approve"
    ELSE IF c = "SECURITY" THEN "security"
    ELSE IF c = "Insecurity" THEN "insecurity"
    ELSE IF c = "Should" THEN "should"
    ELSE c

ErrorWords == {"security", "vulnerability", "critical"}
WarningWords == {"should", "consider", "might"}

\* the symbol, a word or a character, has the keyword in it
SymbolIncludes(symbol, word) == symbol = word \/ (symbol = "insecurity" /\ word = "security")

\* lowerBody.includes(word)
BodyIncludes(body, word) ==
    \E k \in 1..Len(body) : SymbolIncludes(ToLowerCase(body[k]), word)

\* detectSeverity with the warning words looked for first
detectSeverityWarningFirst(body) ==
    IF \E w \in WarningWords : BodyIncludes(body, w) THEN "warning"
    ELSE IF \E w \in ErrorWords : BodyIncludes(body, w) THEN "error"
    ELSE "info"

detectSeverity(body) ==
    IF \E w \in ErrorWords : BodyIncludes(body, w) THEN "error"
    ELSE IF \E w \in WarningWords : BodyIncludes(body, w) THEN "warning"
    ELSE "info"

\* response.slice(0, 500)
SummaryFallbackLength == 500

\* /SUMMARY:\s*([\s\S]*?)(?=COMMENTS:|VERDICT:|$)/i, else response.slice(0, 500)
ParseSummary(text) ==
    LET found == {i \in 1..Len(text) : text[i] = "SUMMARY:"}
    IN  IF found = {} THEN SubSeq(text, 1, Min(Len(text), SummaryFallbackLength))
        ELSE LET i == CHOOSE x \in found : \A y \in found : x <= y
                 s == SkipSpaces(text, i + 1)
                 stops == {q \in s..(Len(text) + 1) :
                             q > Len(text) \/ text[q] \in {"COMMENTS:", "VERDICT:"}}
                 e == CHOOSE x \in stops : \A y \in stops : x <= y
             IN  Trim(SubSeq(text, s, e - 1))

\* ,?\s*Line:\s*(\d+)\]  tried at position e: the digits and the position
\* after the "]", or NoValue when it does not match there
TagTail(text, e) ==
    LET a == IF e <= Len(text) /\ text[e] = "," THEN e + 1 ELSE e
        b == SkipSpaces(text, a)
    IN  IF b > Len(text) \/ text[b] # "Line:" THEN NoValue
        ELSE LET c == SkipSpaces(text, b + 1)
                 d == SkipDigits(text, c)
             IN  IF d = c \/ d > Len(text) \/ text[d] # "]" THEN NoValue
                 ELSE Some([digits |-> SubSeq(text, c, d - 1), next |-> d + 1])

\* \[File:\s*([^\],]+),?\s*Line:\s*(\d+)\]  tried at position i.  \s* and the
\* group are greedy and backtrack, so the group (at least one character, none
\* of them "]" or ",") ends at the last position from which the rest matches;
\* how the leading whitespace is split between \s* and the group does not
\* show after path.trim().
MatchTag(text, i) ==
    IF i > Len(text) \/ text[i] # "[File:" THEN NoValue
    ELSE LET start == i + 1
             barred == {q \in start..(Len(text) + 1) :
                          q > Len(text) \/ text[q] \in {"]", ","}}
             runEnd == CHOOSE x \in barred : \A y \in barred : x <= y
             ends == {e \in (start + 1)..runEnd : TagTail(text, e) # NoValue}
         IN  IF ends = {} THEN NoValue
             ELSE LET e == Max(ends)
                      tail == Get(TagTail(text, e))
                  IN  Some([path |-> SubSeq(text, start, e - 1),
                            line |-> tail.digits, next |-> tail.next])

\* \s*([\s\S]*?)(?=\[File:|VERDICT:|$)  from position n: the body starts after
\* the whitespace and runs to the first "[File:", "VERDICT:" or the end
BodyEnd(text, s) ==
    LET stops == {q \in s..(Len(text) + 1) :
                    q > Len(text) \/ text[q] \in {"[File:", "VERDICT:"}}
    IN  CHOOSE x \in stops : \A y \in stops : x <= y

\* while ((match = commentPattern.exec(response)) !== null), from lastIndex
RECURSIVE ExecLoop(_, _, _)
ExecLoop(text, lastIndex, comments) ==
    LET found == {i \in lastIndex..Len(text) : MatchTag(text, i) # NoValue}
    IN  IF found = {} THEN comments
        ELSE LET i == CHOOSE x \in found : \A y \in found : x <= y
                 tag == Get(MatchTag(text, i))
                 s == SkipSpaces(text, tag.next)
                 e == BodyEnd(text, s)
                 body == SubSeq(text, s, e - 1)
             IN  ExecLoop(text, e,
                          Append(comments,
                                 [path |-> Trim(tag.path), line |-> parseInt(tag.line),
                                  body |-> Trim(body), severity |-> detectSeverity(body)]))

VerdictTokens == {"approve", "request_changes", "comment"}

\* the token after the marker at i is what /\s*(approve|request_changes|comment)/i
\* is tried against: it matches when the text there starts with an accepted token
VerdictMatchAt(text, i) ==
    /\ text[i] = "VERDICT:"
    /\ LET s == SkipSpaces(text, i + 1)
       IN  s <= Len(text) /\ ToLowerCase(text[s]) \in VerdictTokens

\* response.match(/VERDICT:\s*(approve|request_changes|comment)/i)
ParseVerdict(text) ==
    LET found == {i \in 1..Len(text) : VerdictMatchAt(text, i)}
    IN  IF found = {} THEN "comment"
        ELSE LET i == CHOOSE x \in found : \A y \in found : x <= y
             IN  ToLowerCase(text[SkipSpaces(text, i + 1)])

parseReviewResponse(text) ==
    [summary |-> ParseSummary(text),
     comments |-> ExecLoop(text, 1, <<>>),
     suggestions |-> <<>>,
     verdict |-> ParseVerdict(text)]

(***************************************************************************)
(* The review operations: ReviewEngine.review, reviewFiles, reviewWithSkill*)
(* and PRReviewAgent.review.  Each builds a context, has the backend       *)
(* generate the review (generateReview parses the completion) and returns  *)
(* the result; only ReviewEngine.review post-processes it.                 *)
(***************************************************************************)
\* the pieces the completion texts are put together from
Segments ==
    { <<"SUMMARY:", "\n", "x", "\n">>,
      <<"[File:", " ", "a", ",", " ", "Line:", " ", "1", "0", "]", "\n", "security", "\n">>,
      <<"[File:", "b", " ", "Line:", "2", "]", "should", " ">>,
      <<"[File:", " ", ",", "Line:", "1", "]", "x">>,
      <<"[File:", "a", ",", "Line:", "0", "]", "\n">>,
      <<"[File:", "a", "]", "x">>,
      <<"VERDICT:", " ", "approve">>,
      <<"VERDICT:", " ", "request_changes">>,
      <<"VERDICT:", "\n", "APPROVE", "\n">>,
      <<"x">> }

RECURSIVE Concat(_)
Concat(segs) == IF segs = <<>> THEN <<>> ELSE Head(segs) \o Concat(Tail(segs))

Responses == {Concat(segs) : segs \in SeqsUpTo(Segments, MaxSegments)}

\* the values given for maxComments and maxSuggestions
CapOptions == {NoValue, Some(0), Some(1)}

DefaultMaxComments == 20
DefaultMaxSuggestions == 10

\* options.maxComments || 20: a value that is not given, or 0, gives the default
OrDefault(option, default) ==
    IF option = NoValue \/ Get(option) = 0 THEN default ELSE Get(option)

\* Array.prototype.slice(0, n), n >= 0
Slice(list, n) == SubSeq(list, 1, Min(n, Len(list)))

\* c.path && c.line && c.body
HasRequiredFields(c) == c.path # <<>> /\ c.line # 0 /\ c.body # <<>>

\* ReviewEngine.review's post-processing of the generated result
PostProcess(result, maxComments, maxSuggestions) ==
    [result EXCEPT
        !.comments = SelectSeq(Slice(result.comments, maxComments), HasRequiredFields),
        !.suggestions = Slice(result.suggestions, maxSuggestions)]

ReviewInit ==
    /\ response \in Responses
    /\ maxCommentsOption \in CapOptions
    /\ maxSuggestionsOption \in {NoValue, Some(0)}
    /\ reviewOp = ""
    /\ reviewResult = NoValue
    /\ TruncIdle /\ GlobIdle /\ SkillIdle /\ BuildIdle /\ ExtensionsIdle

\* a review operation returns: llm.generateReview(context) parses the
\* completion; "unchanged" is what every review operation leaves alone
reviewUnchanged == <<response, maxCommentsOption, maxSuggestionsOption, reviewOthers>>

EngineReview ==
    /\ reviewOp = ""
    /\ reviewOp' = "ReviewEngine.review"
    /\ reviewResult' =
           Some(PostProcess(parseReviewResponse(response),
                            OrDefault(maxCommentsOption, DefaultMaxComments),
                            OrDefault(maxSuggestionsOption, DefaultMaxSuggestions)))
    /\ UNCHANGED reviewUnchanged

EngineReviewFiles ==
    /\ reviewOp = ""
    /\ reviewOp' = "ReviewEngine.reviewFiles"
    /\ reviewResult' = Some(parseReviewResponse(response))
    /\ UNCHANGED reviewUnchanged

EngineReviewWithSkill ==
    /\ reviewOp = ""
    /\ reviewOp' = "ReviewEngine.reviewWithSkill"
    /\ reviewResult' = Some(parseReviewResponse(response))
    /\ UNCHANGED reviewUnchanged

AgentReview ==
    /\ reviewOp = ""
    /\ reviewOp' = "PRReviewAgent.review"
    /\ reviewResult' = Some(parseReviewResponse(response))
    /\ UNCHANGED reviewUnchanged

ReviewNext == EngineReview \/ EngineReviewFiles \/ EngineReviewWithSkill \/ AgentReview

SpecReview == ReviewInit /\ [][ReviewNext]_vars

\* the token after the VERDICT: marker at position i, the maximal run of
\* non-whitespace characters after it, is exactly the accepted token v
\* (in either case)
ExactTokenAt(text, i, v) ==
    /\ text[i] = "VERDICT:"
    /\ LET s == SkipSpaces(text, i + 1)
       IN  /\ s <= Len(text) /\ ToLowerCase(text[s]) = v
           /\ (s + 1 > Len(text) \/ IsSpace(text[s + 1]))

\* C1: the verdict is approve or request_changes only when the token after a
\* VERDICT: marker is exactly that token; otherwise it is comment.
C1_VerdictOnlyFromExactToken ==
    reviewResult # NoValue =>
        \A v \in {"approve", "request_changes"} :
            Get(reviewResult).verdict = v =>
                \E i \in 1..Len(response) : ExactTokenAt(response, i, v)

\* C8: no review operation returns a comment with an empty path, a
\* non-positive line or an empty body.
C8_NoEmptyCommentFields ==
    reviewResult # NoValue =>
        \A k \in 1..Len(Get(reviewResult).comments) :
            LET c == Get(reviewResult).comments[k]
            IN  c.path # <<>> /\ c.line >= 1 /\ c.body # <<>>

\* s is t with some elements left out, the others in their order
RECURSIVE IsSubsequence(_, _)
IsSubsequence(s, t) ==
    IF s = <<>> THEN TRUE
    ELSE IF t = <<>> THEN FALSE
    ELSE IF Head(s) = Head(t) THEN IsSubsequence(Tail(s), Tail(t))
    ELSE IsSubsequence(s, Tail(t))

\* the maximum as configured: the value given, the default when none is given
Configured(option, default) == IF option = NoValue THEN default ELSE Get(option)

\* C9: ReviewEngine.review returns at most maxComments comments and at most
\* maxSuggestions suggestions, each list an order-preserving subsequence of
\* the extracted one, for every configured maximum including 0.
C9_CappedAtConfiguredMaximum ==
    (reviewResult # NoValue /\ reviewOp = "ReviewEngine.review") =>
        LET r == Get(reviewResult)
            extracted == parseReviewResponse(response)
        IN  /\ Len(r.comments) <= Configured(maxCommentsOption, DefaultMaxComments)
            /\ Len(r.suggestions) <= Configured(maxSuggestionsOption, DefaultMaxSuggestions)
            /\ IsSubsequence(r.comments, extracted.comments)
            /\ IsSubsequence(r.suggestions, extracted.suggestions)

\* C26: the comments ReviewEngine.review returns are the first maxComments
\* of the valid extracted comments: an invalid comment among the first
\* maxComments extracted does not take the place of a valid one after it.
C26_InvalidDroppedBeforeCap ==
    (reviewResult # NoValue /\ reviewOp = "ReviewEngine.review") =>
        Get(reviewResult).comments =
            Slice(SelectSeq(parseReviewResponse(response).comments, HasRequiredFields),
                  OrDefault(maxCommentsOption, DefaultMaxComments))

\* the positions of the text where a tag [File: <path>, Line: <number>] starts
TagStarts(text) == {i \in 1..Len(text) : MatchTag(text, i) # NoValue}

\* the elements of a set of numbers in ascending order
RECURSIVE Ascending(_)
Ascending(S) ==
    IF S = {} THEN <<>>
    ELSE LET least == CHOOSE x \in S : \A y \in S : x <= y
         IN  <<least>> \o Ascending(S \ {least})

\* where the body of the tag that starts at i ends: at the next tag, at the
\* next VERDICT: marker or at the end of the text
BodyStop(text, i) ==
    LET from == Get(MatchTag(text, i)).next
        stops == {q \in from..(Len(text) + 1) :
                    q > Len(text) \/ q \in TagStarts(text) \/ text[q] = "VERDICT:"}
    IN  CHOOSE x \in stops : \A y \in stops : x <= y

\* the comment of the tag that starts at i
CommentOfTag(text, i) ==
    LET tag == Get(MatchTag(text, i))
    IN  [path |-> Trim(tag.path), line |-> DecimalValue(tag.line),
         body |-> Trim(SubSeq(text, tag.next, BodyStop(text, i) - 1))]

\* C24: the comments of the result are those of the tags of the completion,
\* one per tag and in their order, each with the path and the line of its tag
\* and as its body the trimmed text from the tag to the next tag, the next
\* VERDICT: marker or the end; without a tag the list is empty.
C24_OneCommentPerTag ==
    (reviewResult # NoValue /\ reviewOp = "ReviewEngine.reviewFiles") =>
        LET starts == Ascending(TagStarts(response))
            comments == Get(reviewResult).comments
        IN  /\ Len(comments) = Len(starts)
            /\ \A k \in 1..Len(comments) :
                  LET expected == CommentOfTag(response, starts[k])
                  IN  /\ comments[k].path = expected.path
                      /\ comments[k].line = expected.line
                      /\ comments[k].body = expected.body

(***************************************************************************)
(* detectSeverity on the body of a comment.  The words of the body and the *)
(* characters between them are symbols.                                    *)
(***************************************************************************)
BodySymbols ==
    {"security", "SECURITY", "Insecurity", "vulnerability", "critical",
     "should", "Should", "consider", "might", "x", " "}

SeverityInit ==
    /\ severityBody \in SeqsUpTo(BodySymbols, MaxWords)
    /\ detected = NoValue
    /\ TruncIdle /\ GlobIdle /\ SkillIdle /\ ReviewIdle /\ BuildIdle
    /\ ParseIdle /\ FormatIdle /\ SkillFileIdle /\ CliIdle

\* severity: this.detectSeverity(body)
DetectSeverity ==
    /\ detected = NoValue
    /\ detected' = Some(detectSeverity(severityBody))
    /\ UNCHANGED <<severityBody, severityOthers>>

SeverityNext == DetectSeverity

SpecSeverity == SeverityInit /\ [][SeverityNext]_vars

\* the texts of the keywords in the body, in whatever case
DangerSymbols == {"security", "SECURITY", "Insecurity", "vulnerability", "critical"}
SoftSymbols == {"should", "Should", "consider", "might"}

\* C25: the severity is error when the body holds one of the danger keywords
\* in any case, else warning when it holds one of the soft keywords, else
\* info; with both kinds in the body it is error.
C25_SeverityByKeyword ==
    detected # NoValue =>
        LET danger == Range(severityBody) \cap DangerSymbols # {}
            soft == Range(severityBody) \cap SoftSymbols # {}
        IN  /\ Get(detected) \in {"info", "warning", "error"}
            /\ Get(detected) = "error" <=> danger
            /\ Get(detected) = "warning" <=> (soft /\ ~danger)
            /\ Get(detected) = "info" <=> (~soft /\ ~danger)

\* a body with a soft keyword before a danger keyword in upper case
C25_Witness ==
    /\ detected = Some("error")
    /\ \E j, k \in 1..Len(severityBody) :
          j < k /\ severityBody[j] \in SoftSymbols /\ severityBody[k] = "SECURITY"

(***************************************************************************)
(* ContextBuilder.build and the call of it in ReviewEngine.review.  The     *)
(* three fetches of the Promise.all settle in any order; build goes on     *)
(* once all three have resolved and throws when one rejects.               *)
(***************************************************************************)
\* the files of the pull request the inputs are drawn from
BuildPaths == {PathSrcPy, PathLock, PathDist}

\* the entries of config.ignorePaths the inputs are drawn from
IgnoreLock == <<"*", ".", "l", "o", "c", "k">>
IgnoreDist == <<"d", "i", "s", "t">>
IgnoreEntries == {IgnoreLock, IgnoreDist}

\* the hunks of a file of the pull request
BuildHunkLists == {<<>>, <<DiffHunk(40)>>}

\* the diffs of a pull request with the files of the given paths
DiffsOf(paths) ==
    {MakeDiff([i \in 1..Len(paths) |-> FileDiffOf(paths[i], hs[i])]) :
       hs \in [1..Len(paths) -> BuildHunkLists]}

\* String.prototype.includes
Includes(text, sub) ==
    \E i \in 0..(Len(text) - Len(sub)) : SubSeq(text, i + 1, i + Len(sub)) = sub

\* !this.config.ignorePaths.some(ignore => f.path.includes(ignore))
NotIgnored(f, ignores) ==
    ~ \E k \in 1..Len(ignores) : Includes(f.path, ignores[k])

\* files.filter(...)
FilterIgnored(files, ignores) ==
    LET Keep(f) == NotIgnored(f, ignores) IN SelectSeq(files, Keep)

TheFetches == {"getPR", "getDiff", "getFiles"}

\* the await of the Promise.all goes on once any of the fetches has resolved
AnyResolved(done) == done # {}

\* the await of the Promise.all goes on once every fetch has resolved
AllResolved(done) == done = TheFetches

\* the adapters of adapters/ticket: getTicket always throws
StubAdapters == {"jira", "linear"}

\* the ticket adapters: the stubs, and one whose getTicket may resolve
AdapterNames == StubAdapters \cup {"tracker"}

\* whether a call of adapter.getTicket can resolve (TRUE) and can throw (FALSE)
GetTicketOutcomes(adapter) == IF adapter \in StubAdapters THEN {FALSE} ELSE BOOLEAN

\* the keys of the tickets getLinkedTickets finds
TicketKeys == {"ENG-1", "7"}

\* the Ticket adapter.getTicket(key) resolves to
TicketOf(adapter, key) == [id |-> key, key |-> key, source |-> adapter]

\* tickets.push(ticket), whether getTicket resolved or threw
PushAlways(found, ticket, resolved) == Append(found, ticket)

\* try { tickets.push(await adapter.getTicket(key)) } catch { }
PushTicket(found, ticket, resolved) == IF resolved THEN Append(found, ticket) ELSE found

\* the number of getTicket calls the two loops of fetchTickets make
TicketCallCount(adapters, ids) == Len(adapters) * Len(ids)

\* the adapter and the ticket id of call k (from 1): adapters outside, ids inside
CallAdapter(adapters, ids, k) == adapters[((k - 1) \div Len(ids)) + 1]
CallTicketId(adapters, ids, k) == ids[((k - 1) % Len(ids)) + 1]

Config == [maxDiffSize |-> maxDiffSize, focusAreas |-> <<>>, ignorePaths |-> ignorePaths]

\* build has not been called
BuildNotStarted ==
    /\ fetched = {} /\ skillPathsArg = NoValue /\ context = NoValue
    /\ issued = {} /\ rejected = {} /\ buildPc = "start"
    /\ filteredFiles = NoValue /\ linkedTicketIds = <<>> /\ ticketCalls = <<>>
    /\ tickets = <<>> /\ modelCalled = FALSE

BuildInit ==
    /\ prFiles \in {[i \in 1..Len(ps) |-> FileInfo(ps[i])] :
                      ps \in DistinctSeqsUpTo(BuildPaths, MaxFiles)}
    /\ prDiff \in DiffsOf([i \in 1..Len(prFiles) |-> prFiles[i].path])
    /\ ignorePaths \in SeqsUpTo(IgnoreEntries, MaxIgnores)
    /\ maxDiffSize \in {25, 90}
    /\ skillsPathExists = TRUE
    /\ skillDirs \in {<<>>, <<Skill("default", "low", <<TriggerAny>>),
                             Skill("backend", "medium", <<TriggerSrcATs, TriggerAnyPy>>)>>}
    /\ ticketAdapters = <<"jira">>
    /\ BuildNotStarted
    /\ diff = MakeDiff(<<>>) /\ truncated = NoValue
    /\ filePaths = <<>> /\ matched = NoValue
    /\ permSkillDirs = <<>> /\ permFilePaths = <<>> /\ matchedPerm = NoValue
    /\ GlobIdle /\ ReviewIdle /\ ExtensionsIdle

\* the builder of one pull request with every list of ticket adapters
TicketInit ==
    /\ prFiles = <<FileInfo(PathSrcPy), FileInfo(PathDist)>>
    /\ prDiff = MakeDiff(<<FileDiffOf(PathSrcPy, <<DiffHunk(40)>>), FileDiffOf(PathDist, <<>>)>>)
    /\ ignorePaths = <<IgnoreDist>>
    /\ maxDiffSize = 90
    /\ skillsPathExists = TRUE
    /\ skillDirs = <<Skill("default", "low", <<TriggerAny>>)>>
    /\ ticketAdapters \in DistinctSeqsUpTo(AdapterNames, MaxAdapters)
    /\ BuildNotStarted
    /\ diff = MakeDiff(<<>>) /\ truncated = NoValue
    /\ filePaths = <<>> /\ matched = NoValue
    /\ permSkillDirs = <<>> /\ permFilePaths = <<>> /\ matchedPerm = NoValue
    /\ GlobIdle /\ ReviewIdle /\ ExtensionsIdle

buildInputs == <<prDiff, prFiles, ignorePaths, maxDiffSize, skillsPathExists, skillDirs,
                 ticketAdapters>>

\* what the continuation of build works on
buildLocals == <<filteredFiles, linkedTicketIds, ticketCalls, tickets, skillPathsArg,
                 context, modelCalled>>

\* what the resolution of a fetch leaves alone
fetchUnchanged == <<issued, rejected, buildPc, buildLocals, buildInputs, buildOthers>>

\* build is called: the three calls of the array handed to Promise.all
IssueFetches ==
    /\ buildPc = "start"
    /\ issued' = TheFetches
    /\ buildPc' = "await"
    /\ UNCHANGED <<fetched, rejected, buildLocals, buildInputs, buildOthers>>

Pending(fetch) == fetch \in issued /\ fetch \notin fetched \cup rejected

\* this.vcs.getPR(prId) resolves
GetPR ==
    /\ Pending("getPR")
    /\ fetched' = fetched \cup {"getPR"}
    /\ UNCHANGED fetchUnchanged

\* this.vcs.getDiff(prId) resolves
GetDiff ==
    /\ Pending("getDiff")
    /\ fetched' = fetched \cup {"getDiff"}
    /\ UNCHANGED fetchUnchanged

\* this.vcs.getFiles(prId) resolves
GetFiles ==
    /\ Pending("getFiles")
    /\ fetched' = fetched \cup {"getFiles"}
    /\ UNCHANGED fetchUnchanged

\* one of the fetches rejects: the Promise.all rejects and build throws
FetchRejects ==
    /\ \E fetch \in TheFetches :
          /\ Pending(fetch)
          /\ rejected' = rejected \cup {fetch}
    /\ buildPc' = IF buildPc = "await" THEN "failed" ELSE buildPc
    /\ UNCHANGED <<fetched, issued, buildLocals, buildInputs, buildOthers>>

\* build after the await of the Promise.all: filter the files, call
\* getLinkedTickets
FilterFiles ==
    /\ buildPc = "await"
    /\ AllResolved(fetched)
    /\ filteredFiles' = Some(FilterIgnored(prFiles, ignorePaths))
    /\ buildPc' = "getLinkedTickets"
    /\ UNCHANGED <<fetched, issued, rejected, linkedTicketIds, ticketCalls, tickets,
                   skillPathsArg, context, modelCalled, buildInputs, buildOthers>>

\* this.vcs.getLinkedTickets(prId) resolves: fetchTickets is called
GetLinkedTickets ==
    /\ buildPc = "getLinkedTickets"
    /\ \E ids \in SeqsUpTo(TicketKeys, MaxLinked) : linkedTicketIds' = ids
    /\ buildPc' = "fetchTickets"
    /\ UNCHANGED <<fetched, issued, rejected, filteredFiles, ticketCalls, tickets,
                   skillPathsArg, context, modelCalled, buildInputs, buildOthers>>

\* this.vcs.getLinkedTickets(prId) rejects: build throws
LinkedTicketsReject ==
    /\ buildPc = "getLinkedTickets"
    /\ buildPc' = "failed"
    /\ UNCHANGED <<fetched, issued, rejected, buildLocals, buildInputs, buildOthers>>

\* fetchTickets: the next adapter.getTicket(ticketId.key) resolves or throws
GetTicket ==
    /\ buildPc = "fetchTickets"
    /\ Len(ticketCalls) < TicketCallCount(ticketAdapters, linkedTicketIds)
    /\ LET k == Len(ticketCalls) + 1
           adapter == CallAdapter(ticketAdapters, linkedTicketIds, k)
           key == CallTicketId(ticketAdapters, linkedTicketIds, k)
       IN  \E resolved \in GetTicketOutcomes(adapter) :
              /\ ticketCalls' = Append(ticketCalls, [adapter |-> adapter, key |-> key,
                                                     resolved |-> resolved])
              /\ tickets' = PushTicket(tickets, TicketOf(adapter, key), resolved)
    /\ UNCHANGED <<fetched, issued, rejected, buildPc, filteredFiles, linkedTicketIds,
                   skillPathsArg, context, modelCalled, buildInputs, buildOthers>>

\* build after fetchTickets: match the skills, return the context
Assemble ==
    /\ buildPc = "fetchTickets"
    /\ Len(ticketCalls) = TicketCallCount(ticketAdapters, linkedTicketIds)
    /\ LET files == Get(filteredFiles)
           paths == [i \in 1..Len(files) |-> files[i].path]
       IN  /\ skillPathsArg' = Some(paths)
           /\ context' = Some([pr |-> [number |-> 1],
                               diff |-> prDiff,
                               files |-> files,
                               tickets |-> tickets,
                               skills |-> matchSkills(skillsPathExists, skillDirs, paths),
                               config |-> Config])
    /\ buildPc' = "returned"
    /\ UNCHANGED <<fetched, issued, rejected, filteredFiles, linkedTicketIds, ticketCalls,
                   tickets, modelCalled, buildInputs, buildOthers>>

\* ReviewEngine.review after the await of build: this.llm.generateReview(context)
CallModel ==
    /\ buildPc = "returned"
    /\ ~modelCalled
    /\ modelCalled' = TRUE
    /\ UNCHANGED <<fetched, issued, rejected, buildPc, filteredFiles, linkedTicketIds,
                   ticketCalls, tickets, skillPathsArg, context, buildInputs, buildOthers>>

\* the filePaths reviewFiles is called with
ReviewFilePaths == {<<>>, <<PathSrcPy>>, <<PathLock, PathSrcPy>>}

\* list.filter(f => filePaths.includes(f.path))
FilterToPaths(list, paths) == SelectSeq(list, LAMBDA f : f.path \in Range(paths))

\* ReviewEngine.reviewFiles after the await of build: the files of the context
\* and of its diff are filtered, then this.llm.generateReview(context)
ReviewFiles ==
    /\ buildPc = "returned"
    /\ ~modelCalled
    /\ \E paths \in ReviewFilePaths :
          LET c == Get(context)
          IN  context' = Some([c EXCEPT !.files = FilterToPaths(c.files, paths),
                                        !.diff.files = FilterToPaths(c.diff.files, paths)])
    /\ modelCalled' = TRUE
    /\ UNCHANGED <<fetched, issued, rejected, buildPc, filteredFiles, linkedTicketIds,
                   ticketCalls, tickets, skillPathsArg, buildInputs, buildOthers>>

BuildNext ==
    \/ IssueFetches \/ GetPR \/ GetDiff \/ GetFiles \/ FetchRejects
    \/ FilterFiles \/ GetLinkedTickets \/ LinkedTicketsReject \/ GetTicket
    \/ Assemble \/ CallModel \/ ReviewFiles

SpecBuild == BuildInit /\ [][BuildNext]_vars

SpecTickets == TicketInit /\ [][BuildNext]_vars

\* d has a hunk that carries the truncation marker
HasMarkerHunk(d) ==
    \E i \in 1..Len(d.files) : \E h \in 1..Len(d.files[i].hunks) :
        d.files[i].hunks[h].content = TruncationMarker

\* the sum of the lengths of the hunks of d that are not the marker
IncludedLength(d) ==
    SumSeq([i \in 1..Len(d.files) |->
              SumSeq([h \in 1..Len(d.files[i].hunks) |->
                        IF d.files[i].hunks[h].content = TruncationMarker THEN 0
                        ELSE d.files[i].hunks[h].content.length])])

\* C3: when the fetched diff's combined hunk length exceeds config.maxDiffSize,
\* the diff of the context build returns contains a truncation-marker hunk and
\* its other hunks sum to at most config.maxDiffSize.
C3_BuiltContextWithinBudget ==
    (context # NoValue /\ EmittedLength(prDiff) > maxDiffSize) =>
        /\ HasMarkerHunk(Get(context).diff)
        /\ IncludedLength(Get(context).diff) <= maxDiffSize

\* the path matches the entry of ignorePaths read as a glob (the whole path
\* against the translated pattern)
MatchesIgnoreGlob(path, ignore) == RegexTestAnchored(GlobToRegex(ignore), path)

IsIgnoredPath(path) ==
    \E k \in 1..Len(ignorePaths) : MatchesIgnoreGlob(path, ignorePaths[k])

\* C10: no file whose path matches an entry of config.ignorePaths, read as a
\* glob, is in context.files, in context.diff.files or among the paths given
\* to skill matching.
C10_IgnoredPathsFilteredOut ==
    context # NoValue =>
        LET c == Get(context)
        IN  /\ \A i \in 1..Len(c.files) : ~IsIgnoredPath(c.files[i].path)
            /\ \A i \in 1..Len(c.diff.files) : ~IsIgnoredPath(c.diff.files[i].path)
            /\ \A i \in 1..Len(Get(skillPathsArg)) : ~IsIgnoredPath(Get(skillPathsArg)[i])

\* the ticket ids the calls of one adapter are made for, in order
KeysOfCalls(calls) == [k \in 1..Len(calls) |-> calls[k].key]

\* the calls made on the adapter
CallsOn(adapter) == SelectSeq(ticketCalls, LAMBDA c : c.adapter = adapter)

\* the tickets of the calls that resolved, in the order of the calls
RECURSIVE ResolvedTickets(_)
ResolvedTickets(calls) ==
    IF calls = <<>> THEN <<>>
    ELSE LET c == Head(calls)
         IN  (IF c.resolved THEN <<TicketOf(c.adapter, c.key)>> ELSE <<>>)
                \o ResolvedTickets(Tail(calls))

\* C18: a getTicket call that throws never makes build fail; the context build
\* returns was assembled after getTicket had been called for every ticket id
\* on every adapter, and its tickets are those of the calls that resolved, the
\* others left out; with only adapters that always throw the list is empty.
C18_TicketFailuresSwallowed ==
    /\ (\E k \in 1..Len(ticketCalls) : ~ticketCalls[k].resolved) => buildPc # "failed"
    /\ context # NoValue =>
          /\ \A a \in 1..Len(ticketAdapters) :
                KeysOfCalls(CallsOn(ticketAdapters[a])) = linkedTicketIds
          /\ Get(context).tickets = ResolvedTickets(ticketCalls)
          /\ (Range(ticketAdapters) \subseteq StubAdapters) => Get(context).tickets = <<>>

\* a context returned after a call that threw and a later call that resolved
C18_Witness ==
    /\ context # NoValue
    /\ \E j, k \in 1..Len(ticketCalls) :
          j < k /\ ~ticketCalls[j].resolved /\ ticketCalls[k].resolved
    /\ Len(Get(context).tickets) < Len(ticketCalls)
    /\ Get(context).tickets # <<>>

\* build has gone past the await of the Promise.all
PastJoin ==
    \/ buildPc \in {"getLinkedTickets", "fetchTickets", "returned"}
    \/ filteredFiles # NoValue \/ linkedTicketIds # <<>> \/ ticketCalls # <<>>
    \/ skillPathsArg # NoValue \/ context # NoValue \/ modelCalled

\* C19: the three fetches are issued together, before any of them settles;
\* filtering, ticket lookup, skill matching and the model call happen only
\* once all three have resolved; when one has rejected there is no context
\* and the model has not been called.
C19_FetchesJoinedBeforeAssembly ==
    /\ (fetched \cup rejected # {}) => issued = TheFetches
    /\ PastJoin => fetched = TheFetches
    /\ rejected # {} => (context = NoValue /\ ~modelCalled /\ ~PastJoin)

\* the model called with a context whose files were filtered
C19_Witness ==
    /\ modelCalled
    /\ context # NoValue
    /\ Len(Get(context).files) < Len(prFiles)
    /\ fetched = TheFetches


(***************************************************************************)
(* GitHubAdapter.parseDiff and parseHunks (adapters/vcs/github.ts)         *)
(*                                                                         *)
(* The raw diff is a text of lines.  "diff --git " and "@@" are atomic     *)
(* symbols; everything else is a single character.                         *)
(***************************************************************************)
FileStartLine == <<"diff --git ", "a", "\n">>
HeaderLine ==
    <<"@@", " ", "-", "1", ",", "2", " ", "+", "3", ",", "4", " ", "@@", "\n">>
HeaderShortLine == <<"@@", " ", "-", "0", " ", "+", "1", " ", "@@", " ", "x", "\n">>
AddedLine == <<"+", "x", "\n">>
\* a content line that holds '@@ '
AtLine == <<"+", "@@", " ", "x", "\n">>
\* a line that starts like a hunk header and is none
NotHeaderLine == <<"@@", " ", "-", "x", " ", "+", "1", " ", "@@", "\n">>

HeaderLines == {HeaderLine, HeaderShortLine}
BlockLines == HeaderLines \cup {AddedLine, AtLine, NotHeaderLine}

\* the raw diffs of the API: empty, or file sections that each start with a
\* 'diff --git ' line
DiffLineLists ==
    {<<>>} \cup {<<FileStartLine>> \o ls :
                    ls \in SeqsUpTo(BlockLines \cup {FileStartLine}, MaxDiffLines - 1)}

\* the entries of pulls.listFiles the inputs are drawn from
FileStatuses == <<"added", "removed", "renamed", "modified", "copied">>

FileChange(i) ==
    [filename |-> FilePaths[((i - 1) % Len(FilePaths)) + 1],
     status |-> FileStatuses[((i - 1) % Len(FileStatuses)) + 1],
     additions |-> i, deletions |-> i - 1]

FilesDataLists == {[i \in 1..n |-> FileChange(i)] : n \in 0..MaxFiles}

\* text.slice(i, j) on 1-based positions, j exclusive
SliceText(text, i, j) == SubSeq(text, i, j - 1)

\* /^diff --git /m matches at p
BoundaryAt(text, p) ==
    /\ p <= Len(text) /\ text[p] = "diff --git "
    /\ (p = 1 \/ text[p - 1] = "\n")

\* diffText.split(/^diff --git /m): the pieces between the matches, from position i
RECURSIVE Split(_, _, _)
Split(text, start, p) ==
    IF p > Len(text) THEN <<SliceText(text, start, Len(text) + 1)>>
    ELSE IF BoundaryAt(text, p)
         THEN <<SliceText(text, start, p)>> \o Split(text, p + 1, p + 1)
         ELSE Split(text, start, p + 1)

\* .filter(Boolean) on strings: the empty string is dropped
FilterNonEmpty(pieces) == SelectSeq(pieces, LAMBDA b : b # <<>>)

SymbolAt(text, p, c) == p <= Len(text) /\ text[p] = c

\* ,? : the position after an optional comma at p
SkipComma(text, p) == IF SymbolAt(text, p, ",") THEN p + 1 ELSE p

\* /@@ -(\d+),?(\d*) \+(\d+),?(\d*) @@/ matched at p: the positions of the
\* four groups and of the end of the match, or NoValue
HeaderMatchAt(text, p) ==
    LET a1 == p + 3
        a2 == SkipDigits(text, a1)
        b1 == SkipComma(text, a2)
        b2 == SkipDigits(text, b1)
        c1 == b2 + 2
        c2 == SkipDigits(text, c1)
        d1 == SkipComma(text, c2)
        d2 == SkipDigits(text, d1)
    IN  IF /\ SymbolAt(text, p, "@@") /\ SymbolAt(text, p + 1, " ")
           /\ SymbolAt(text, p + 2, "-")
           /\ a2 > a1
           /\ SymbolAt(text, b2, " ") /\ SymbolAt(text, b2 + 1, "+")
           /\ c2 > c1
           /\ SymbolAt(text, d2, " ") /\ SymbolAt(text, d2 + 1, "@@")
        THEN Some([oldStart |-> SliceText(text, a1, a2),
                   oldLines |-> SliceText(text, b1, b2),
                   newStart |-> SliceText(text, c1, c2),
                   newLines |-> SliceText(text, d1, d2),
                   end |-> d2 + 2])
        ELSE NoValue

\* diffBlock.indexOf('@@ ', from), Len + 1 standing for the block's length
\* when there is none
RECURSIVE IndexOfAt(_, _)
IndexOfAt(text, from) ==
    IF from > Len(text) THEN Len(text) + 1
    ELSE IF SymbolAt(text, from, "@@") /\ SymbolAt(text, from + 1, " ") THEN from
         ELSE IndexOfAt(text, from + 1)

\* parseInt(digits) || default
ParseIntOr(digits, default) ==
    IF digits = <<>> \/ parseInt(digits) = 0 THEN default ELSE parseInt(digits)

HunkOf(diffBlock, m) ==
    [oldStart |-> ParseIntOr(m.oldStart, 1),
     oldLines |-> ParseIntOr(m.oldLines, 0),
     newStart |-> ParseIntOr(m.newStart, 1),
     newLines |-> ParseIntOr(m.newLines, 0),
     content |-> Trim(SliceText(diffBlock, m.end, IndexOfAt(diffBlock, m.end)))]

\* the loop of parseHunks stopped after its first hunk
RECURSIVE HunkLoopFirstOnly(_, _, _)
HunkLoopFirstOnly(diffBlock, lastIndex, hunks) ==
    IF lastIndex > Len(diffBlock) \/ hunks # <<>> THEN hunks
    ELSE LET m == HeaderMatchAt(diffBlock, lastIndex)
         IN  IF m = NoValue THEN HunkLoopFirstOnly(diffBlock, lastIndex + 1, hunks)
             ELSE HunkLoopFirstOnly(diffBlock, Get(m).end,
                                    Append(hunks, HunkOf(diffBlock, Get(m))))

\* while ((match = hunkRegex.exec(diffBlock)) !== null): the search resumes at
\* the end of the last match
RECURSIVE HunkLoop(_, _, _)
HunkLoop(diffBlock, lastIndex, hunks) ==
    IF lastIndex > Len(diffBlock) THEN hunks
    ELSE LET m == HeaderMatchAt(diffBlock, lastIndex)
         IN  IF m = NoValue THEN HunkLoop(diffBlock, lastIndex + 1, hunks)
             ELSE HunkLoop(diffBlock, Get(m).end, Append(hunks, HunkOf(diffBlock, Get(m))))

parseHunks(diffBlock) == HunkLoop(diffBlock, 1, <<>>)

StatusOf(fileInfo) ==
    IF fileInfo.status = "added" THEN "added"
    ELSE IF fileInfo.status = "removed" THEN "deleted"
    ELSE IF fileInfo.status = "renamed" THEN "renamed"
    ELSE "modified"

\* the pairing of parseDiff that takes the blocks from the end of the diff
PairFromEnd(fileBlocks, data) ==
    LET n == Min(Len(fileBlocks), Len(data))
    IN  [i \in 1..n |->
            [path |-> data[i].filename, status |-> StatusOf(data[i]),
             additions |-> data[i].additions, deletions |-> data[i].deletions,
             hunks |-> parseHunks(fileBlocks[Len(fileBlocks) - n + i])]]

\* for (i = 0; i < fileBlocks.length && i < filesData.length; i++)
PairBlocks(fileBlocks, data) ==
    [i \in 1..Min(Len(fileBlocks), Len(data)) |->
        [path |-> data[i].filename, status |-> StatusOf(data[i]),
         additions |-> data[i].additions, deletions |-> data[i].deletions,
         hunks |-> parseHunks(fileBlocks[i])]]

parseDiff(text, data) == PairBlocks(FilterNonEmpty(Split(text, 1, 1)), data)

ParseInit ==
    /\ diffLines \in DiffLineLists
    /\ diffText = Concat(diffLines)
    /\ filesData \in FilesDataLists
    /\ fileDiffs = NoValue
    /\ gotDiff = NoValue
    /\ TruncIdle /\ GlobIdle /\ SkillIdle /\ ReviewIdle /\ BuildIdle
    /\ FormatIdle /\ SkillFileIdle /\ CliIdle /\ SeverityIdle

\* the Diff getDiff returns for the files parseDiff gave
DiffOfResponse(files, data) ==
    [files |-> files,
     additions |-> SumSeq([i \in 1..Len(data) |-> data[i].additions]),
     deletions |-> SumSeq([i \in 1..Len(data) |-> data[i].deletions]),
     changedFiles |-> Len(data)]

\* GitHubAdapter.getDiff: const files = this.parseDiff(diffText, response.data)
\* and the Diff returned
ParseDiff ==
    /\ fileDiffs = NoValue
    /\ fileDiffs' = Some(parseDiff(diffText, filesData))
    /\ gotDiff' = Some(DiffOfResponse(parseDiff(diffText, filesData), filesData))
    /\ UNCHANGED <<diffLines, diffText, filesData, parseOthers>>

ParseNext == ParseDiff

SpecParse == ParseInit /\ [][ParseNext]_vars

\* the file sections of the raw diff, as lists of lines: a section runs from
\* a 'diff --git ' line to the next
RECURSIVE Sections(_)
Sections(ls) ==
    IF ls = <<>> THEN <<>>
    ELSE LET rest == Sections(SubSeq(ls, 1, Len(ls) - 1))
             last == ls[Len(ls)]
         IN  IF last = FileStartLine THEN Append(rest, <<last>>)
             ELSE [rest EXCEPT ![Len(rest)] = Append(@, last)]

\* the number of hunk-header lines of a section
HeaderCount(section) == Len(SelectSeq(section, LAMBDA l : l \in HeaderLines))

\* C11: every FileDiff parseDiff produces has as many hunks as its diff block
\* has hunk headers; a block without a header gives an empty hunk list and the
\* parse goes on.
C11_HunkCountEqualsHeaderCount ==
    fileDiffs # NoValue =>
        \A i \in 1..Len(Get(fileDiffs)) :
            Len(Get(fileDiffs)[i].hunks) = HeaderCount(Sections(diffLines)[i])

\* a block with no header was parsed, and after it a block with two
C11_Witness ==
    /\ fileDiffs # NoValue
    /\ \E i, j \in 1..Len(Get(fileDiffs)) :
          /\ i < j
          /\ Get(fileDiffs)[i].hunks = <<>>
          /\ Len(Get(fileDiffs)[j].hunks) = 2

\* C12: parseDiff pairs the i-th file section with fileChanges[i]; the result
\* has min(sections, fileChanges) entries, entry i has the path, status and
\* counts of fileChanges[i] and the hunks of the i-th section.
C12_PositionalPairing ==
    fileDiffs # NoValue =>
        LET sections == Sections(diffLines)
            result == Get(fileDiffs)
        IN  /\ Len(result) = Min(Len(sections), Len(filesData))
            /\ \A i \in 1..Len(result) :
                  /\ result[i].path = filesData[i].filename
                  /\ result[i].status = StatusOf(filesData[i])
                  /\ result[i].additions = filesData[i].additions
                  /\ result[i].deletions = filesData[i].deletions
                  /\ result[i].hunks = parseHunks(Concat(sections[i]))

\* more sections than fileChanges, with different hunks in the sections
C12_Witness ==
    /\ fileDiffs # NoValue
    /\ Len(Sections(diffLines)) > Len(filesData)
    /\ Len(Get(fileDiffs)) = 2
    /\ Get(fileDiffs)[1].hunks # Get(fileDiffs)[2].hunks

\* what a hunk-header line holds after the header itself
TextAfterHeader(line) ==
    IF line = HeaderLine THEN <<"\n">> ELSE <<" ", "x", "\n">>

\* the hunks of a section as its lines give them: each runs from a header
\* line to the line before the next header line; the text of a hunk is what
\* follows the header on its line and the lines after it
RECURSIVE HunkTexts(_)
HunkTexts(section) ==
    IF section = <<>> THEN <<>>
    ELSE LET rest == HunkTexts(SubSeq(section, 1, Len(section) - 1))
             last == section[Len(section)]
         IN  IF last \in HeaderLines THEN Append(rest, TextAfterHeader(last))
             ELSE IF rest = <<>> THEN rest
             ELSE [rest EXCEPT ![Len(rest)] = @ \o last]

\* C22: the content of each hunk is the text between the end of its header
\* and the next hunk header (or the end of the block), trimmed; a line inside
\* the hunk that is no hunk header does not end it.
C22_ContentUpToNextHeader ==
    fileDiffs # NoValue =>
        \A i \in 1..Len(Get(fileDiffs)) :
            LET hunks == Get(fileDiffs)[i].hunks
                texts == HunkTexts(Sections(diffLines)[i])
            IN  /\ Len(hunks) = Len(texts)
                /\ \A j \in 1..Len(hunks) : hunks[j].content = Trim(texts[j])

\* the numbers written in a hunk-header line, 0 for a length that is absent
WrittenFields(line) ==
    IF line = HeaderLine
    THEN [oldStart |-> 1, oldLines |-> 2, newStart |-> 3, newLines |-> 4]
    ELSE [oldStart |-> 0, oldLines |-> 0, newStart |-> 1, newLines |-> 0]

HeadersOf(section) == SelectSeq(section, LAMBDA l : l \in HeaderLines)

\* C23: the four numbers of each hunk are those written in its header, a
\* start or a length of 0 included and an absent length read as 0, and none
\* is negative.
C23_FieldsAsWritten ==
    fileDiffs # NoValue =>
        \A i \in 1..Len(Get(fileDiffs)) :
            LET hunks == Get(fileDiffs)[i].hunks
                headers == HeadersOf(Sections(diffLines)[i])
            IN  /\ Len(hunks) = Len(headers)
                /\ \A j \in 1..Len(hunks) :
                      LET h == hunks[j]
                          w == WrittenFields(headers[j])
                      IN  /\ h.oldStart = w.oldStart /\ h.oldLines = w.oldLines
                          /\ h.newStart = w.newStart /\ h.newLines = w.newLines
                          /\ h.oldStart >= 0 /\ h.oldLines >= 0
                          /\ h.newStart >= 0 /\ h.newLines >= 0


(***************************************************************************)
(* The output formatters (review output): MarkdownFormatter, JsonFormatter *)
(* and GhActionsFormatter.  The formatted string is a text of symbols; the *)
(* fixed pieces of the templates are atomic symbols.                       *)
(***************************************************************************)
\* the decimal digits of a natural number
RECURSIVE DecimalDigits(_)
DecimalDigits(n) ==
    IF n < 10 THEN <<Digits[n + 1]>>
    ELSE Append(DecimalDigits(n \div 10), Digits[(n % 10) + 1])

\* String(n) of a Number that holds an integer
NumberToString(n) == IF n = Infinity THEN <<"Infinity">> ELSE DecimalDigits(n)

\* lines.join('\n')
RECURSIVE Join(_)
Join(lines) ==
    IF lines = <<>> THEN <<>>
    ELSE IF Len(lines) = 1 THEN lines[1]
    ELSE lines[1] \o <<"\n">> \o Join(Tail(lines))

\* the property names every object inherits from Object.prototype
InheritedProperties ==
    {<<"constructor">>, <<"__proto__">>, <<"toString">>, <<"valueOf">>,
     <<"hasOwnProperty">>}

\* the digits of 2^32 - 2, the largest array index
MaxArrayIndex == <<"4", "2", "9", "4", "9", "6", "7", "2", "9", "4">>

\* a < b for two runs of digits without leading zeros
RECURSIVE IndexLess(_, _)
IndexLess(a, b) ==
    IF Len(a) # Len(b) THEN Len(a) < Len(b)
    ELSE IF a = <<>> THEN FALSE
    ELSE IF a[1] # b[1] THEN DigitValue(a[1]) < DigitValue(b[1])
    ELSE IndexLess(Tail(a), Tail(b))

\* the property key is an array index: a canonical decimal up to 2^32 - 2
IsArrayIndex(key) ==
    /\ key # <<>>
    /\ \A k \in 1..Len(key) : key[k] \in Range(Digits)
    /\ (Len(key) = 1 \/ key[1] # "0")
    /\ ~IndexLess(MaxArrayIndex, key)

\* the reduce of groupByFile: the groups in the order their keys were created.
\* acc[comment.path] of an inherited property is truthy and has no push.
RECURSIVE GroupLoop(_, _, _)
GroupLoop(comments, k, acc) ==
    IF k > Len(comments) THEN Some(acc)
    ELSE LET c == comments[k]
             at == {g \in 1..Len(acc) : acc[g].file = c.path}
         IN  IF at # {}
             THEN LET g == CHOOSE x \in at : TRUE
                  IN  GroupLoop(comments, k + 1,
                                [acc EXCEPT ![g].comments = Append(@, c)])
             ELSE IF c.path \in InheritedProperties THEN NoValue
             ELSE GroupLoop(comments, k + 1,
                            Append(acc, [file |-> c.path, comments |-> <<c>>]))

\* groupByFile: Some(the groups in creation order), or NoValue for a TypeError
groupByFile(comments) == GroupLoop(comments, 1, <<>>)

\* the groups whose keys are array indices, in ascending order of the index
RECURSIVE SortIndexGroups(_)
SortIndexGroups(groups) ==
    IF groups = <<>> THEN <<>>
    ELSE LET m == CHOOSE i \in 1..Len(groups) :
                      \A j \in 1..Len(groups) : ~IndexLess(groups[j].file, groups[i].file)
         IN  <<groups[m]>>
             \o SortIndexGroups(SubSeq(groups, 1, m - 1) \o SubSeq(groups, m + 1, Len(groups)))

\* Object.entries(byFile): the array-index keys first, in ascending numeric
\* order, then the other keys in creation order
ObjectEntries(groups) ==
    SortIndexGroups(SelectSeq(groups, LAMBDA g : IsArrayIndex(g.file)))
    \o SelectSeq(groups, LAMBDA g : ~IsArrayIndex(g.file))

VerdictEmoji(verdict) ==
    CASE verdict = "approve" -> "emoji-check"
      [] verdict = "request_changes" -> "emoji-cycle"
      [] OTHER -> "emoji-speech"

SeverityEmoji(severity) ==
    CASE severity = "info" -> "emoji-bulb"
      [] severity = "warning" -> "emoji-warning"
      [] OTHER -> "emoji-siren"

\* result.verdict.toUpperCase()
ToUpperCase(c) ==
    CASE c = "approve" -> "APPROVE"
      [] c = "request_changes" -> "REQUEST_CHANGES"
      [] c = "comment" -> "COMMENT"
      [] OTHER -> c

\* the symbol of the grave accent of the templates
Backtick == "backtick"

\* the lines format pushes for one comment (extracted comments carry no
\* suggestion)
CommentLines(comment) ==
    << <<SeverityEmoji(comment.severity), " **Line ">> \o NumberToString(comment.line)
          \o <<":**">>,
       <<>>, comment.body, <<>> >>

RECURSIVE CommentsLines(_)
CommentsLines(comments) ==
    IF comments = <<>> THEN <<>>
    ELSE CommentLines(Head(comments)) \o CommentsLines(Tail(comments))

\* the lines format pushes for the entries of byFile
RECURSIVE FileSections(_)
FileSections(entries) ==
    IF entries = <<>> THEN <<>>
    ELSE << <<"### ", Backtick>> \o Head(entries).file \o <<Backtick>>, <<>> >>
         \o CommentsLines(Head(entries).comments)
         \o FileSections(Tail(entries))

RECURSIVE SuggestionLines(_)
SuggestionLines(suggestions) ==
    IF suggestions = <<>> THEN <<>>
    ELSE LET x == Head(suggestions)
         IN  << <<"### ", Backtick>> \o x.path \o <<":">> \o NumberToString(x.line) \o <<Backtick>>,
                <<>>, x.description, <<>>, <<Backtick, Backtick, Backtick, "diff">>,
                <<"-">> \o x.oldCode, <<"+">> \o x.newCode, <<Backtick, Backtick, Backtick>>, <<>> >>
             \o SuggestionLines(Tail(suggestions))

\* MarkdownFormatter.format, given the groups of groupByFile
MarkdownLines(r, groups) ==
    << <<"# ", VerdictEmoji(r.verdict), " Code Review">>, <<>>,
       <<"## Summary">>, <<>>, r.summary, <<>> >>
    \o (IF Len(r.comments) > 0
        THEN << <<"## Comments">>, <<>> >> \o FileSections(ObjectEntries(groups))
        ELSE <<>>)
    \o (IF Len(r.suggestions) > 0
        THEN << <<"## Code Suggestions">>, <<>> >> \o SuggestionLines(r.suggestions)
        ELSE <<>>)
    \o << <<"## Verdict">>, <<>>, <<"**", ToUpperCase(r.verdict), "**">>, <<>> >>

\* MarkdownFormatter.format: Some(the string), or NoValue for a TypeError
MarkdownFormat(r) ==
    IF Len(r.comments) > 0 /\ groupByFile(r.comments) = NoValue THEN NoValue
    ELSE Some(Join(MarkdownLines(r,
                     IF Len(r.comments) > 0 THEN Get(groupByFile(r.comments)) ELSE <<>>)))

\* result.summary.slice(0, 200)
SummarySliceLength == 200

AnnotationLevel(severity) ==
    IF severity = "error" THEN "error"
    ELSE IF severity = "warning" THEN "warning" ELSE "notice"

AnnotationLine(comment) ==
    <<"::", AnnotationLevel(comment.severity), " file=">> \o comment.path
    \o <<",line=">> \o NumberToString(comment.line) \o <<"::">> \o comment.body

\* GhActionsFormatter.format
GhActionsFormat(r) ==
    Join(<< <<"::", "notice", "::", "Review Summary: ">> \o Slice(r.summary, SummarySliceLength) >>
         \o [i \in 1..Len(r.comments) |-> AnnotationLine(r.comments[i])])

\* JSON.stringify's escape of one character of a string
JsonEscape(c) ==
    IF c = "\"" THEN <<"\\", "\"">>
    ELSE IF c = "\\" THEN <<"\\", "\\">>
    ELSE IF c = "\n" THEN <<"\\", "n">>
    ELSE <<c>>

RECURSIVE JsonEscapeAll(_)
JsonEscapeAll(text) ==
    IF text = <<>> THEN <<>> ELSE JsonEscape(Head(text)) \o JsonEscapeAll(Tail(text))

JsonString(text) == <<"\"">> \o JsonEscapeAll(text) \o <<"\"">>

\* a Number in JSON: Infinity is serialised as null
JsonNumber(n) == IF n = Infinity THEN <<"null">> ELSE DecimalDigits(n)

Indent(k) == [j \in 1..k |-> " "]

JsonKey(name) == <<"\"", name, "\"", ":", " ">>

\* a ReviewComment at the indentation of the comments array
JsonComment(c) ==
    Indent(4) \o <<"{", "\n">>
    \o Indent(6) \o JsonKey("path") \o JsonString(c.path) \o <<",", "\n">>
    \o Indent(6) \o JsonKey("line") \o JsonNumber(c.line) \o <<",", "\n">>
    \o Indent(6) \o JsonKey("body") \o JsonString(c.body) \o <<",", "\n">>
    \o Indent(6) \o JsonKey("severity") \o JsonString(<<c.severity>>) \o <<"\n">>
    \o Indent(4) \o <<"}">>

RECURSIVE JsonItems(_)
JsonItems(items) ==
    IF items = <<>> THEN <<>>
    ELSE IF Len(items) = 1 THEN items[1]
    ELSE items[1] \o <<",", "\n">> \o JsonItems(Tail(items))

JsonArray(items) ==
    IF items = <<>> THEN <<"[", "]">>
    ELSE <<"[", "\n">> \o JsonItems(items) \o <<"\n">> \o Indent(2) \o <<"]">>

\* JsonFormatter.format: JSON.stringify(result, null, 2).  The suggestions of
\* an extracted result are the empty array.
JsonFormat(r) ==
    <<"{", "\n">>
    \o Indent(2) \o JsonKey("summary") \o JsonString(r.summary) \o <<",", "\n">>
    \o Indent(2) \o JsonKey("comments")
    \o JsonArray([i \in 1..Len(r.comments) |-> JsonComment(r.comments[i])])
    \o <<",", "\n">>
    \o Indent(2) \o JsonKey("suggestions") \o JsonArray(<<>>) \o <<",", "\n">>
    \o Indent(2) \o JsonKey("verdict") \o JsonString(<<r.verdict>>) \o <<"\n">>
    \o <<"}">>

\* the pieces the completion texts to format are put together from
FormatSegments ==
    { <<"SUMMARY:", " ", "x", "\n", "y", "\n">>,
      <<"SUMMARY:", " ", "\"", "x", "\\", "\n">>,
      <<"[File:", "a", ",", "Line:", "1", "]", "x", "\n">>,
      <<"[File:", "2", ",", "Line:", "3", "]", "security", "\n">>,
      <<"[File:", "1", "0", ",", "Line:", "1", "]", "should", "\n", "y", "\n">>,
      <<"[File:", "constructor", ",", "Line:", "1", "]", "x", "\n">>,
      <<"[File:", "a", ",", "Line:", NinesRun, "]", "x", "\n">>,
      <<"VERDICT:", " ", "approve">> }

Completions == {Concat(segs) : segs \in SeqsUpTo(FormatSegments, MaxSegments)}

FormatInit ==
    /\ completion \in Completions
    /\ formatInput = NoValue
    /\ formatKind = ""
    /\ formatted = NoValue
    /\ formatThrew = FALSE
    /\ TruncIdle /\ GlobIdle /\ SkillIdle /\ ReviewIdle /\ BuildIdle
    /\ ParseIdle /\ SkillFileIdle /\ CliIdle /\ SeverityIdle

\* generateReview: the result extracted from the completion
Extract ==
    /\ formatInput = NoValue
    /\ formatInput' = Some(parseReviewResponse(completion))
    /\ UNCHANGED <<completion, formatKind, formatted, formatThrew, formatOthers>>

\* getFormatter('markdown').format(result)
FormatMarkdown ==
    /\ formatInput # NoValue /\ formatKind = ""
    /\ formatKind' = "markdown"
    /\ formatted' = MarkdownFormat(Get(formatInput))
    /\ formatThrew' = (MarkdownFormat(Get(formatInput)) = NoValue)
    /\ UNCHANGED <<completion, formatInput, formatOthers>>

\* getFormatter('json').format(result)
FormatJson ==
    /\ formatInput # NoValue /\ formatKind = ""
    /\ formatKind' = "json"
    /\ formatted' = Some(JsonFormat(Get(formatInput)))
    /\ UNCHANGED <<completion, formatInput, formatThrew, formatOthers>>

\* getFormatter('gh-actions').format(result)
FormatGhActions ==
    /\ formatInput # NoValue /\ formatKind = ""
    /\ formatKind' = "gh-actions"
    /\ formatted' = Some(GhActionsFormat(Get(formatInput)))
    /\ UNCHANGED <<completion, formatInput, formatThrew, formatOthers>>

FormatNext == Extract \/ FormatMarkdown \/ FormatJson \/ FormatGhActions

SpecFormat == FormatInit /\ [][FormatNext]_vars


(***************************************************************************)
(* JSON.parse of a formatted ReviewResult, for the round trip.  A position *)
(* of 0 stands for a SyntaxError.                                          *)
(***************************************************************************)
\* the position after the symbol c, which follows optional whitespace at i
Expect(text, i, c) ==
    IF i = 0 THEN 0
    ELSE LET j == SkipSpaces(text, i)
         IN  IF SymbolAt(text, j, c) THEN j + 1 ELSE 0

\* the character an escape sequence stands for
Unescape(c) == IF c = "n" THEN "\n" ELSE c

\* the characters of a string literal from i to its closing quote
RECURSIVE StringBody(_, _, _)
StringBody(text, i, acc) ==
    IF i > Len(text) \/ text[i] = "\n" THEN [value |-> acc, next |-> 0]
    ELSE IF text[i] = "\"" THEN [value |-> acc, next |-> i + 1]
    ELSE IF text[i] = "\\"
         THEN IF i + 1 > Len(text) \/ text[i + 1] \notin {"n", "\"", "\\"}
              THEN [value |-> acc, next |-> 0]
              ELSE StringBody(text, i + 2, Append(acc, Unescape(text[i + 1])))
    ELSE StringBody(text, i + 1, Append(acc, text[i]))

ParseString(text, i) ==
    LET j == Expect(text, i, "\"")
    IN  IF j = 0 THEN [value |-> <<>>, next |-> 0] ELSE StringBody(text, j, <<>>)

\* "name": at i
ParseKey(text, i, name) ==
    LET k == ParseString(text, i)
    IN  IF k.next = 0 \/ k.value # <<name>> THEN 0 ELSE Expect(text, k.next, ":")

\* a number, Some(n), or null, NoValue
ParseNumber(text, i) ==
    IF i = 0 THEN [value |-> NoValue, next |-> 0]
    ELSE LET j == SkipSpaces(text, i)
             d == SkipDigits(text, j)
         IN  IF SymbolAt(text, j, "null") THEN [value |-> NoValue, next |-> j + 1]
             ELSE IF d = j THEN [value |-> NoValue, next |-> 0]
             ELSE [value |-> Some(parseInt(SubSeq(text, j, d - 1))), next |-> d]

ParseCommentObject(text, i) ==
    LET path == ParseString(text, ParseKey(text, Expect(text, i, "{"), "path"))
        line == ParseNumber(text, ParseKey(text, Expect(text, path.next, ","), "line"))
        body == ParseString(text, ParseKey(text, Expect(text, line.next, ","), "body"))
        severity ==
            ParseString(text, ParseKey(text, Expect(text, body.next, ","), "severity"))
    IN  [value |-> [path |-> path.value, line |-> line.value, body |-> body.value,
                    severity |-> severity.value],
         next |-> Expect(text, severity.next, "}")]

RECURSIVE ParseElements(_, _, _)
ParseElements(text, i, acc) ==
    LET element == ParseCommentObject(text, i)
        more == Expect(text, element.next, ",")
    IN  IF element.next = 0 THEN [value |-> acc, next |-> 0]
        ELSE IF more # 0 THEN ParseElements(text, more, Append(acc, element.value))
        ELSE [value |-> Append(acc, element.value),
              next |-> Expect(text, element.next, "]")]

ParseArray(text, i) ==
    LET open == Expect(text, i, "[")
    IN  IF open = 0 THEN [value |-> <<>>, next |-> 0]
        ELSE IF Expect(text, open, "]") # 0
             THEN [value |-> <<>>, next |-> Expect(text, open, "]")]
             ELSE ParseElements(text, open, <<>>)

\* JSON.parse: Some(the value), or NoValue for a SyntaxError
JsonParse(text) ==
    LET summary == ParseString(text, ParseKey(text, Expect(text, 1, "{"), "summary"))
        comments ==
            ParseArray(text, ParseKey(text, Expect(text, summary.next, ","), "comments"))
        suggestions ==
            ParseArray(text, ParseKey(text, Expect(text, comments.next, ","), "suggestions"))
        verdict ==
            ParseString(text, ParseKey(text, Expect(text, suggestions.next, ","), "verdict"))
        close == Expect(text, verdict.next, "}")
    IN  IF close = 0 \/ SkipSpaces(text, close) <= Len(text) THEN NoValue
        ELSE Some([summary |-> summary.value, comments |-> comments.value,
                   suggestions |-> suggestions.value, verdict |-> verdict.value])

\* the parsed value equals the ReviewResult: a parsed number is Some(n), a
\* parsed string the text of the field
SameResult(parsed, r) ==
    /\ parsed.summary = r.summary
    /\ Len(parsed.comments) = Len(r.comments)
    /\ \A i \in 1..Len(r.comments) :
          /\ parsed.comments[i].path = r.comments[i].path
          /\ parsed.comments[i].line = Some(r.comments[i].line)
          /\ parsed.comments[i].body = r.comments[i].body
          /\ parsed.comments[i].severity = <<r.comments[i].severity>>
    /\ parsed.suggestions = r.suggestions
    /\ parsed.verdict = <<r.verdict>>

\* C13: parsing JsonFormatter.format(r) back as JSON gives a value equal to r,
\* for every ReviewResult r the extractor produces.
C13_JsonRoundTrip ==
    (formatKind = "json" /\ formatted # NoValue) =>
        /\ JsonParse(Get(formatted)) # NoValue
        /\ SameResult(Get(JsonParse(Get(formatted))), Get(formatInput))

\* the lines of a text
RECURSIVE SplitLines(_)
SplitLines(text) ==
    LET breaks == {i \in 1..Len(text) : text[i] = "\n"}
    IN  IF breaks = {} THEN <<text>>
        ELSE LET b == CHOOSE x \in breaks : \A y \in breaks : x <= y
             IN  <<SubSeq(text, 1, b - 1)>> \o SplitLines(SubSeq(text, b + 1, Len(text)))

IsSectionLine(line) == Len(line) >= 3 /\ line[1] = "### " /\ line[2] = Backtick

\* the paths of the file sections of a report, in the order of the report
SectionPaths(lines) ==
    LET sections == SelectSeq(lines, IsSectionLine)
    IN  [k \in 1..Len(sections) |-> SubSeq(sections[k], 3, Len(sections[k]) - 1)]

\* the distinct paths of the comments in the order they are first seen
RECURSIVE FirstSeenPaths(_)
FirstSeenPaths(comments) ==
    IF comments = <<>> THEN <<>>
    ELSE LET before == FirstSeenPaths(SubSeq(comments, 1, Len(comments) - 1))
             path == comments[Len(comments)].path
         IN  IF path \in Range(before) THEN before ELSE Append(before, path)

\* the lines of the k-th file section of a report, without its heading: up to
\* the next section or the Verdict heading
SectionBody(lines, k) ==
    LET heads == {i \in 1..Len(lines) : IsSectionLine(lines[i])}
        start == CHOOSE i \in heads : Cardinality({j \in heads : j <= i}) = k
        stops == {i \in (start + 1)..Len(lines) :
                    IsSectionLine(lines[i]) \/ lines[i] = <<"## Verdict">>}
        stop == CHOOSE i \in stops : \A j \in stops : i <= j
    IN  SubSeq(lines, start + 1, stop - 1)

\* what a section shows for its comments, in their order in result.comments: a
\* blank line, then per comment the line number, a blank line, the body and a
\* blank line
ExpectedBody(comments) ==
    SplitLines(Join(<< <<>> >>
                    \o CommentsLines(comments)))

\* C14: MarkdownFormatter.format gives each distinct path one section, the
\* sections in the order the paths are first seen in result.comments, whatever
\* the path string, and the comments of a section in their order in
\* result.comments.
C14_SectionsInFirstSeenOrder ==
    formatKind = "markdown" =>
        /\ formatted # NoValue
        /\ LET lines == SplitLines(Get(formatted))
               comments == Get(formatInput).comments
               paths == FirstSeenPaths(comments)
           IN  /\ SectionPaths(lines) = paths
               /\ \A k \in 1..Len(paths) :
                     SectionBody(lines, k) =
                        ExpectedBody(SelectSeq(comments, LAMBDA c : c.path = paths[k]))

\* the annotation level the external CI has for a severity
LevelOf(severity) ==
    CASE severity = "error" -> "error"
      [] severity = "warning" -> "warning"
      [] severity = "info" -> "notice"

\* C15: GhActionsFormatter.format emits one summary line and one line per
\* comment, whatever the summary and bodies hold, and the line of a comment
\* carries the level of its severity.
C15_OneLinePerComment ==
    (formatKind = "gh-actions" /\ formatted # NoValue) =>
        LET lines == SplitLines(Get(formatted))
            comments == Get(formatInput).comments
        IN  /\ Len(lines) = Len(comments) + 1
            /\ \A i \in 1..Len(comments) :
                  /\ Len(lines[i + 1]) >= 2
                  /\ lines[i + 1][1] = "::"
                  /\ lines[i + 1][2] = LevelOf(comments[i].severity)


(***************************************************************************)
(* SkillLoader.loadSkill and parseFrontMatter on a SKILL.md file.  The     *)
(* file is a text of symbols: "---" and the words of the front matter are  *)
(* atomic, the rest are single characters.                                 *)
(***************************************************************************)
\* the symbols \w matches
WordSymbols ==
    {"name", "description", "trigger", "priority", "high", "medium", "low",
     "a", "d", "m", "p", "s", "t", "x", "y"}

\* a trigger list item as the README writes it: '  - "glob"'
QuotedItem(glob) == [glob |-> glob, quoted |-> TRUE]
\* a trigger list item without the quotes: '  - glob'
PlainItem(glob) == [glob |-> glob, quoted |-> FALSE]

ItemLine(item) ==
    <<" ", " ", "-", " ">>
    \o (IF item.quoted THEN <<"\"">> \o item.glob \o <<"\"">> ELSE item.glob)
    \o <<"\n">>

\* the items the trigger lists are drawn from
TriggerItems ==
    {QuotedItem(TriggerAnyTs), QuotedItem(TriggerAnyPy), QuotedItem(TriggerMd),
     QuotedItem(TriggerAny), PlainItem(TriggerAnyTs)}

\* a SKILL.md file as the README's "Creating a Skill" writes it
SkillFileOf(items) ==
    <<"---", "\n", "name", ":", " ", "x", "\n", "description", ":", " ", "x", "\n",
      "trigger", ":", "\n">>
    \o Concat([i \in 1..Len(items) |-> ItemLine(items[i])])
    \o <<"priority", ":", " ", "high", "\n", "---", "\n", "\n", "x", "\n">>

\* /^---\s*\n([\s\S]*?)\n---/: Some(group 1), or NoValue.  \s* is greedy, so
\* the \n it leaves is the last one of the whitespace after the first "---"
\* from which a "\n---" still follows; the group is lazy and ends at the
\* first one.
FrontMatter(content) ==
    IF ~SymbolAt(content, 1, "---") THEN NoValue
    ELSE LET w == SkipSpaces(content, 2)
             closes(from) == {q \in from..(Len(content) - 1) :
                                content[q] = "\n" /\ content[q + 1] = "---"}
             starts == {n + 1 : n \in {m \in 2..(w - 1) :
                                         content[m] = "\n" /\ closes(m + 1) # {}}}
         IN  IF starts = {} THEN NoValue
             ELSE LET start == Max(starts)
                      q == CHOOSE x \in closes(start) : \A y \in closes(start) : x <= y
                  IN  Some(SubSeq(content, start, q - 1))

\* the first position at or after i that holds no \w symbol
RECURSIVE SkipWord(_, _)
SkipWord(line, i) ==
    IF i <= Len(line) /\ line[i] \in WordSymbols THEN SkipWord(line, i + 1) ELSE i

\* line.match(/^(\w+):\s*(.*)$/): Some(key and value), or NoValue
KeyMatch(line) ==
    LET w == SkipWord(line, 1)
    IN  IF w > 1 /\ SymbolAt(line, w, ":")
        THEN Some([key |-> SubSeq(line, 1, w - 1),
                   value |-> SubSeq(line, SkipSpaces(line, w + 1), Len(line))])
        ELSE NoValue

\* line.startsWith('  - ')
IsListItem(line) == Len(line) >= 4 /\ SubSeq(line, 1, 4) = <<" ", " ", "-", " ">>

\* line.slice(4)
SliceItem(line) == SubSeq(line, 5, Len(line))

\* a property of the front matter: a string (value) or an array (items)
StringEntry(value) == [list |-> FALSE, value |-> value, items |-> <<>>]
ListEntry(items) == [list |-> TRUE, value |-> <<>>, items |-> items]

\* result with result[key] set
SetEntry(fm, key, entry) ==
    [k \in DOMAIN fm \cup {key} |-> IF k = key THEN entry ELSE fm[k]]

\* the loop over the lines of the front matter: Some(result), or NoValue when
\* push is called on a string and throws
RECURSIVE LineLoop(_, _, _, _)
LineLoop(lines, k, currentKey, fm) ==
    IF k > Len(lines) THEN Some(fm)
    ELSE LET line == lines[k]
             keyMatch == KeyMatch(line)
         IN  IF keyMatch # NoValue
             THEN LET key == Get(keyMatch).key
                      value == Get(keyMatch).value
                  IN  LineLoop(lines, k + 1, Some(key),
                               SetEntry(fm, key,
                                        IF value # <<>> THEN StringEntry(value)
                                        ELSE ListEntry(<<>>)))
             ELSE IF IsListItem(line) /\ currentKey # NoValue
             THEN IF ~fm[Get(currentKey)].list THEN NoValue
                  ELSE LineLoop(lines, k + 1, currentKey,
                                [fm EXCEPT ![Get(currentKey)].items =
                                              Append(@, SliceItem(line))])
             ELSE LineLoop(lines, k + 1, currentKey, fm)

\* the empty object
EmptyObject == [k \in {} |-> StringEntry(<<>>)]

\* parseFrontMatter: Some(result), or NoValue for a TypeError
parseFrontMatter(content) ==
    IF FrontMatter(content) = NoValue THEN Some(EmptyObject)
    ELSE LineLoop(SplitLines(Get(FrontMatter(content))), 1, NoValue, EmptyObject)

\* frontMatter.trigger || []: an array as it is, a string character by
\* character (for ... of a string)
TriggersOf(fm) ==
    IF <<"trigger">> \notin DOMAIN fm THEN <<>>
    ELSE IF fm[<<"trigger">>].list THEN fm[<<"trigger">>].items
    ELSE [i \in 1..Len(fm[<<"trigger">>].value) |-> <<fm[<<"trigger">>].value[i]>>]

\* frontMatter.priority || 'medium'
PriorityOf(fm) ==
    IF <<"priority">> \notin DOMAIN fm THEN "medium"
    ELSE IF ~fm[<<"priority">>].list /\ Len(fm[<<"priority">>].value) = 1
         THEN fm[<<"priority">>].value[1]
    ELSE "unknown"

\* loadSkill, as the list loadSkills pushes into: the Skill, or nothing when
\* parsing threw and loadSkill returned null
loadSkill(dir, content) ==
    IF parseFrontMatter(content) = NoValue THEN <<>>
    ELSE << Skill(dir, PriorityOf(Get(parseFrontMatter(content))),
                  TriggersOf(Get(parseFrontMatter(content)))) >>

SkillFileInit ==
    /\ triggerItems \in SeqsUpTo(TriggerItems, MaxTriggers)
    /\ skillFile = SkillFileOf(triggerItems)
    /\ changedFile \in SamplePaths
    /\ loadedSkills = NoValue
    /\ fileMatched = NoValue
    /\ TruncIdle /\ GlobIdle /\ SkillIdle /\ ReviewIdle /\ BuildIdle
    /\ ParseIdle /\ FormatIdle /\ CliIdle /\ SeverityIdle

\* SkillLoader.listSkills on a skills directory that holds the one file
ListSkills ==
    /\ loadedSkills = NoValue
    /\ loadedSkills' = Some(loadSkills(TRUE, loadSkill("my-skill", skillFile)))
    /\ UNCHANGED <<triggerItems, skillFile, changedFile, fileMatched, skillFileOthers>>

\* SkillLoader.matchSkills([changedFile]) on the same directory
MatchChangedFile ==
    /\ fileMatched = NoValue
    /\ fileMatched' = Some(matchSkills(TRUE, loadSkill("my-skill", skillFile),
                                       <<changedFile>>))
    /\ UNCHANGED <<triggerItems, skillFile, changedFile, loadedSkills, skillFileOthers>>

SkillFileNext == ListSkills \/ MatchChangedFile

SpecSkillFile == SkillFileInit /\ [][SkillFileNext]_vars

\* the glob matches the whole path
GlobMatches(path, glob) == RegexTestAnchored(GlobToRegex(glob), path)

\* C16: a skill file whose trigger items are written in double quotes is
\* loaded with the globs without the quotes, and matchSkills returns the skill
\* for a changed file one of the globs matches.
C16_QuotedTriggersLoadedAsGlobs ==
    (\A i \in 1..Len(triggerItems) : triggerItems[i].quoted) =>
        /\ loadedSkills # NoValue =>
              /\ Len(Get(loadedSkills)) = 1
              /\ Get(loadedSkills)[1].triggers =
                    [i \in 1..Len(triggerItems) |-> triggerItems[i].glob]
        /\ fileMatched # NoValue =>
              ((\E i \in 1..Len(triggerItems) :
                    GlobMatches(changedFile, triggerItems[i].glob))
               => Len(Get(fileMatched)) = 1)


(***************************************************************************)
(* The review command of the CLI: the action handler, PRReviewAgent.review *)
(* and PRReviewAgent.postReview.                                           *)
(***************************************************************************)
Providers == {"ollama", "claude", "openai"}

\* the values --provider is given with; "gemini" is no provider
GivenProviders == Providers \cup {"gemini"}

\* .option(flags, description, defaultValue): the value given, else the default
OptionValue(given, default) == IF given = NoValue THEN default ELSE Get(given)

\* the options object commander hands to the action
Options(given) ==
    [provider |-> OptionValue(given.provider, "ollama"),
     dryRun |-> given.dryRun,
     output |-> given.output,
     vcs |-> given.vcs]

\* loadConfig: the defaults overlaid with the sections of the config file
LoadedProvider(inFile) == IF inFile = NoValue THEN "ollama" ELSE Get(inFile)

\* if (options.provider) config.llm.provider = options.provider
OverrideProvider(loaded, options) ==
    IF options.provider # "" THEN options.provider ELSE loaded

\* the review is posted whatever the options say
PostAlways(options) == TRUE

\* if (!options.dryRun)
ShouldPost(options) == ~options.dryRun

\* the providers whose backend needs an API key
NeedsApiKey(provider) == provider \in {"claude", "openai"}

CliInit ==
    /\ commandLine \in [provider : {NoValue} \cup {Some(v) : v \in GivenProviders},
                        dryRun : BOOLEAN, output : {"markdown", "json"},
                        vcs : {"github", "azure"}]
    /\ configProvider \in {NoValue} \cup {Some(v) : v \in Providers}
    /\ apiKeySet \in BOOLEAN
    /\ tokenSet \in BOOLEAN
    /\ generated \in 0..MaxGenerated
    /\ cliPc = "loadConfig"
    /\ llmBackend = ""
    /\ cliResult = NoValue
    /\ vcsCalls = <<>>
    /\ failedCall = NoValue
    /\ delivered = <<>>
    /\ stdout = <<>>
    /\ TruncIdle /\ GlobIdle /\ SkillIdle /\ ReviewIdle /\ BuildIdle
    /\ ParseIdle /\ FormatIdle /\ SkillFileIdle /\ SeverityIdle

cliInputs == <<commandLine, configProvider, apiKeySet, tokenSet, generated>>

\* what the calls on the VCS adapter leave alone when nothing reaches the host
cliQuiet == <<failedCall, delivered>>

\* the handler up to the VCS adapter: config, overrides, repo, the token of
\* GitHub or the configuration of Azure DevOps
InitVcs ==
    /\ cliPc = "loadConfig"
    /\ cliPc' = IF tokenSet THEN "initLlm" ELSE "exit"
    /\ stdout' = IF tokenSet THEN stdout ELSE Append(stdout, "error")
    /\ UNCHANGED <<cliInputs, llmBackend, cliResult, vcsCalls, cliQuiet, cliOthers>>

\* Initialize LLM backend, by config.llm.provider after the override
InitLlm ==
    /\ cliPc = "initLlm"
    /\ LET provider == OverrideProvider(LoadedProvider(configProvider),
                                        Options(commandLine))
           ok == provider \in Providers /\ (NeedsApiKey(provider) => apiKeySet)
       IN  /\ llmBackend' = IF ok THEN provider ELSE llmBackend
           /\ cliPc' = IF ok THEN "getPR" ELSE "exit"
           /\ stdout' = IF ok THEN Append(stdout, "reviewing") ELSE Append(stdout, "error")
    /\ UNCHANGED <<cliInputs, cliResult, vcsCalls, cliQuiet, cliOthers>>

\* the awaits of PRReviewAgent.review on the VCS adapter, in order
ReviewFetches == <<"getPR", "getDiff", "getFiles", "getLinkedTickets">>

FetchAfter(call) ==
    IF call = "getLinkedTickets" THEN "generateReview"
    ELSE ReviewFetches[(CHOOSE k \in 1..Len(ReviewFetches) : ReviewFetches[k] = call) + 1]

\* one await of agent.review resolves
ReviewFetch ==
    /\ cliPc \in Range(ReviewFetches)
    /\ vcsCalls' = Append(vcsCalls, cliPc)
    /\ cliPc' = FetchAfter(cliPc)
    /\ UNCHANGED <<cliInputs, llmBackend, cliResult, stdout, cliQuiet, cliOthers>>

\* this.llm.generateReview(context) resolves and agent.review returns
GenerateReview ==
    /\ cliPc = "generateReview"
    /\ \E verdict \in VerdictTokens :
          cliResult' = Some([comments |-> [i \in 1..generated |-> i], verdict |-> verdict])
    /\ cliPc' = "output"
    /\ UNCHANGED <<cliInputs, llmBackend, vcsCalls, stdout, cliQuiet, cliOthers>>

\* where the handler awaits something that may reject
Awaits ==
    Range(ReviewFetches)
        \cup {"generateReview", "addInlineComment", "submitReview", "azureSummary", "azureVote"}

\* the call of the agent on the adapter the handler is in
CallAt(pc) == IF pc \in {"azureSummary", "azureVote"} THEN "submitReview" ELSE pc

\* an await of agent.review or of postReview rejects: the catch of the handler
\* prints the error and exits
Rejects ==
    /\ cliPc \in Awaits
    /\ vcsCalls' = IF cliPc = "generateReview" THEN vcsCalls
                   ELSE Append(vcsCalls, CallAt(cliPc))
    /\ failedCall' = Some(CallAt(cliPc))
    /\ stdout' = Append(stdout, "error")
    /\ cliPc' = "exit"
    /\ UNCHANGED <<cliInputs, llmBackend, cliResult, delivered, cliOthers>>

\* Output result, then the branch on --dry-run
OutputResult ==
    /\ cliPc = "output"
    /\ LET options == Options(commandLine)
           shown == Append(stdout, IF options.output = "json" THEN "json" ELSE "markdown")
       IN  IF ShouldPost(options)
           THEN /\ stdout' = Append(shown, "posting")
                /\ cliPc' = IF Len(Get(cliResult).comments) > 0
                            THEN "addInlineComment" ELSE "submitReview"
           ELSE /\ stdout' = Append(shown, "dry run")
                /\ cliPc' = "done"
    /\ UNCHANGED <<cliInputs, llmBackend, cliResult, vcsCalls, cliQuiet, cliOthers>>

PostedComments == Len(SelectSeq(vcsCalls, LAMBDA c : c = "addInlineComment"))

\* an inline comment on the host, of comment i of the result
Inline(i) == [kind |-> "inline", comment |-> i]

\* the inline comments the host has received
InlineDelivered == SelectSeq(delivered, LAMBDA x : x.kind = "inline")

\* postReview goes on to submitReview after its first comment
AfterFirstComment(posted, total) == "submitReview"

\* for (const comment of comments): the next comment, or submitReview after
\* the last
AfterComment(posted, total) ==
    IF posted < total THEN "addInlineComment" ELSE "submitReview"

\* postReview: await this.vcs.addInlineComment(...) for the next comment; the
\* adapter creates a review comment (GitHub) or a thread (Azure DevOps)
AddInlineComment ==
    /\ cliPc = "addInlineComment"
    /\ vcsCalls' = Append(vcsCalls, "addInlineComment")
    /\ delivered' = Append(delivered, Inline(PostedComments + 1))
    /\ cliPc' = AfterComment(PostedComments + 1, Len(Get(cliResult).comments))
    /\ UNCHANGED <<cliInputs, llmBackend, cliResult, failedCall, stdout, cliOthers>>

\* what pulls.createReview creates from the comments and the event
ReviewWithComments(result) ==
    [i \in 1..Len(result.comments) |-> Inline(result.comments[i])]
        \o <<[kind |-> "review", verdict |-> result.verdict]>>

\* postReview: await this.vcs.submitReview(...) on GitHubAdapter, then the
\* handler's last line
SubmitReview ==
    /\ cliPc = "submitReview"
    /\ Options(commandLine).vcs = "github"
    /\ vcsCalls' = Append(vcsCalls, "submitReview")
    /\ delivered' = delivered \o ReviewWithComments(Get(cliResult))
    /\ stdout' = Append(stdout, "posted")
    /\ cliPc' = "done"
    /\ UNCHANGED <<cliInputs, llmBackend, cliResult, failedCall, cliOthers>>

\* the comments AzureDevOpsAdapter.submitReview has posted
AzureReposted == Len(InlineDelivered) - PostedComments

\* AzureDevOpsAdapter.submitReview: await this.addInlineComment(...) for the
\* next comment of review.comments
AzureInlineComment ==
    /\ cliPc = "submitReview"
    /\ Options(commandLine).vcs = "azure"
    /\ AzureReposted < Len(Get(cliResult).comments)
    /\ delivered' = Append(delivered, Inline(Get(cliResult).comments[AzureReposted + 1]))
    /\ cliPc' = IF AzureReposted + 1 < Len(Get(cliResult).comments)
                THEN "submitReview" ELSE "azureSummary"
    /\ UNCHANGED <<cliInputs, llmBackend, cliResult, vcsCalls, failedCall, stdout, cliOthers>>

\* AzureDevOpsAdapter.submitReview with no comment to post
AzureNoComments ==
    /\ cliPc = "submitReview"
    /\ Options(commandLine).vcs = "azure"
    /\ Get(cliResult).comments = <<>>
    /\ cliPc' = "azureSummary"
    /\ UNCHANGED <<cliInputs, llmBackend, cliResult, vcsCalls, cliQuiet, stdout, cliOthers>>

\* vote: voteMap[review.verdict]
VoteMap(verdict) ==
    CASE verdict = "approve" -> 10
      [] verdict = "request_changes" -> 0 - 5
      [] verdict = "comment" -> 0

\* AzureDevOpsAdapter.submitReview: the summary thread is posted; without a
\* vote to set submitReview returns
AzureSummary ==
    /\ cliPc = "azureSummary"
    /\ delivered' = Append(delivered, [kind |-> "summary", verdict |-> Get(cliResult).verdict])
    /\ IF VoteMap(Get(cliResult).verdict) # 0
       THEN /\ cliPc' = "azureVote"
            /\ UNCHANGED <<vcsCalls, stdout>>
       ELSE /\ cliPc' = "done"
            /\ vcsCalls' = Append(vcsCalls, "submitReview")
            /\ stdout' = Append(stdout, "posted")
    /\ UNCHANGED <<cliInputs, llmBackend, cliResult, failedCall, cliOthers>>

\* AzureDevOpsAdapter.submitReview: the vote is set and submitReview returns
AzureVote ==
    /\ cliPc = "azureVote"
    /\ delivered' = Append(delivered, [kind |-> "vote", verdict |-> Get(cliResult).verdict])
    /\ vcsCalls' = Append(vcsCalls, "submitReview")
    /\ stdout' = Append(stdout, "posted")
    /\ cliPc' = "done"
    /\ UNCHANGED <<cliInputs, llmBackend, cliResult, failedCall, cliOthers>>

CliNext ==
    \/ InitVcs \/ InitLlm \/ ReviewFetch \/ GenerateReview \/ Rejects
    \/ OutputResult \/ AddInlineComment \/ SubmitReview
    \/ AzureInlineComment \/ AzureNoComments \/ AzureSummary \/ AzureVote

SpecCli == CliInit /\ [][CliNext]_vars

PostingCalls == {"addInlineComment", "submitReview"}

ResultShown == \E k \in 1..Len(stdout) : stdout[k] \in {"json", "markdown"}

\* C17: with --dry-run no addInlineComment and no submitReview is ever issued;
\* without it, such a call is issued only once the result has been produced
\* and printed.
C17_DryRunNeverPosts ==
    /\ commandLine.dryRun => \A k \in 1..Len(vcsCalls) : vcsCalls[k] \notin PostingCalls
    /\ (\E k \in 1..Len(vcsCalls) : vcsCalls[k] \in PostingCalls)
          => (cliResult # NoValue /\ ResultShown)

\* a dry run has shown a review with comments and ended
C17_Witness ==
    /\ commandLine.dryRun
    /\ cliPc = "done"
    /\ cliResult # NoValue /\ Len(Get(cliResult).comments) = MaxGenerated
    /\ ResultShown

\* C20: the backend is the one of llm.provider of the config file unless
\* --provider is given, and the one of --provider when it is given.
C20_ConfiguredProviderUsed ==
    llmBackend # "" =>
        llmBackend = IF commandLine.provider = NoValue
                     THEN LoadedProvider(configProvider)
                     ELSE Get(commandLine.provider)


\* the number of inline comments the host has received for comment i
TimesDelivered(i) == Len(SelectSeq(delivered, LAMBDA x : x = Inline(i)))

\* C27: when postReview has completed without an error, the host has received
\* each comment of the result as an inline comment exactly once, with the
\* GitHub adapter and with the Azure DevOps adapter.
C27_EachCommentDeliveredOnce ==
    (cliPc = "done" /\ ~commandLine.dryRun) =>
        \A i \in 1..Len(Get(cliResult).comments) :
            TimesDelivered(Get(cliResult).comments[i]) = 1

\* what carries the verdict or the summary of the review to the host
VerdictKinds == {"review", "summary", "vote"}

\* C28: the host receives the summary and the verdict only after postReview
\* has posted every comment of the result, in their order, and submitReview
\* is called only then; when addInlineComment has failed, submitReview is not
\* called and no verdict has reached the host.
C28_SubmittedAfterAllComments ==
    LET n == IF cliResult = NoValue THEN 0 ELSE Len(Get(cliResult).comments)
    IN  /\ \A k \in 1..Len(delivered) :
              delivered[k].kind \in VerdictKinds =>
                  /\ k > n
                  /\ SubSeq(delivered, 1, n) = [i \in 1..n |-> Inline(Get(cliResult).comments[i])]
        /\ \A k \in 1..Len(vcsCalls) :
              vcsCalls[k] = "submitReview" =>
                  /\ failedCall # Some("addInlineComment")
                  /\ Len(SelectSeq(SubSeq(vcsCalls, 1, k - 1),
                                   LAMBDA c : c = "addInlineComment")) = n
        /\ failedCall = Some("addInlineComment") =>
              /\ \A k \in 1..Len(vcsCalls) : vcsCalls[k] # "submitReview"
              /\ \A k \in 1..Len(delivered) : delivered[k].kind \notin VerdictKinds

\* the second addInlineComment failed after the first comment had been posted
C28_Witness ==
    /\ failedCall = Some("addInlineComment")
    /\ cliPc = "exit"
    /\ delivered = <<Inline(1)>>
    /\ Len(Get(cliResult).comments) = MaxGenerated


\* changedFiles of the diff is the number of its files
CountsItsFiles(d) == d.changedFiles = Len(d.files)

\* C29: every Diff has changedFiles equal to the number of its files: the one
\* getDiff returns, the one truncateDiff returns and the one of the context
\* the model is called with, after reviewFiles has filtered it.
C29_ChangedFilesIsFileCount ==
    /\ gotDiff # NoValue => CountsItsFiles(Get(gotDiff))
    /\ truncated # NoValue => CountsItsFiles(Get(truncated))
    /\ (context # NoValue /\ modelCalled) => CountsItsFiles(Get(context).diff)

====
